---- MODULE Spec2Model ----
(***************************************************************************)
(* NeuroChain DSL: lexer (src/src/lexer/mod.rs), parser                    *)
(* (src/src/parser/mod.rs) and interpreter (src/src/interpreter/mod.rs).   *)
(*                                                                         *)
(* Text is modelled character by character: a string is a sequence of      *)
(* one-character strings, <<"4", "2">> for "42".  Numbers are the f64      *)
(* values that are multiples of 1/4 (exact in binary floating point), with *)
(* NaN and the sign of zero kept, so that parsing and formatting are the   *)
(* conversions the code performs and not the identity.                     *)
(***************************************************************************)
EXTENDS Integers, Sequences, FiniteSets, TLC

(* ------------------------------------------------------------------ *)
(* Characters and strings                                              *)
(* ------------------------------------------------------------------ *)

\* The printable ASCII characters in code order, from 32 (space) to 126; the
\* grave accent (96) is written by name.
Ascii ==
  << " ", "!", "\"", "#", "$", "%", "&", "'", "(", ")", "*", "+", ",", "-", ".", "/",
     "0", "1", "2", "3", "4", "5", "6", "7", "8", "9", ":", ";", "<", "=", ">", "?",
     "@", "A", "B", "C", "D", "E", "F", "G", "H", "I", "J", "K", "L", "M", "N", "O",
     "P", "Q", "R", "S", "T", "U", "V", "W", "X", "Y", "Z", "[", "\\", "]", "^", "_",
     "(grave)", "a", "b", "c", "d", "e", "f", "g", "h", "i", "j", "k", "l", "m", "n", "o",
     "p", "q", "r", "s", "t", "u", "v", "w", "x", "y", "z", "{", "|", "}", "~" >>

AsciiSet == {Ascii[i] : i \in 1..Len(Ascii)}

AsciiIndex == [c \in AsciiSet |-> CHOOSE i \in 1..Len(Ascii) : Ascii[i] = c]

\* The two fixed error sentences of eval_expr.  Each is the cross mark (a
\* multi-byte character whose first byte is above every ASCII byte), a space,
\* the first letter, and the rest of the sentence kept as one unit of text.
CrossMark == "(cross mark)"
ArithTail == "rithmetic does not work on strings"
ModTail == "odulo does not work on strings"
ArithErr == <<CrossMark, " ", "A", ArithTail>>
ModErr == <<CrossMark, " ", "M", ModTail>>

\* The byte order of characters (str comparison in Rust is bytewise).
Ord(c) ==
  IF \E i \in DOMAIN Ascii : Ascii[i] = c
  THEN 31 + (CHOOSE i \in DOMAIN Ascii : Ascii[i] = c)
  ELSE IF c = CrossMark THEN 226
  ELSE IF c = ArithTail THEN 114
  ELSE 111

IsDigit(c) == c \in {"0", "1", "2", "3", "4", "5", "6", "7", "8", "9"}

DigitVal(c) == Ord(c) - 48

\* char::is_ascii_uppercase, char::is_ascii_lowercase
IsUpper(c) ==
  c \in {"A", "B", "C", "D", "E", "F", "G", "H", "I", "J", "K", "L", "M",
         "N", "O", "P", "Q", "R", "S", "T", "U", "V", "W", "X", "Y", "Z"}

IsLower(c) ==
  c \in {"a", "b", "c", "d", "e", "f", "g", "h", "i", "j", "k", "l", "m",
         "n", "o", "p", "q", "r", "s", "t", "u", "v", "w", "x", "y", "z"}

IsAlpha(c) == IsUpper(c) \/ IsLower(c)

\* char::to_ascii_lowercase
LowerChar(c) == IF IsUpper(c) THEN Ascii[Ord(c) + 1] ELSE c

\* str::to_ascii_lowercase
ToLower(s) == [i \in 1..Len(s) |-> LowerChar(s[i])]

\* char::is_whitespace and the class \s: the space, and the form feed for
\* every other white space character.
IsSpace(c) == c \in {" ", "\f"}

\* The least and the greatest element of a set of numbers.
Min(S) == CHOOSE i \in S : \A j \in S : i <= j
Max(S) == CHOOSE i \in S : \A j \in S : j <= i

RECURSIVE TrimStart(_)
TrimStart(s) == IF s # <<>> /\ IsSpace(s[1]) THEN TrimStart(Tail(s)) ELSE s

RECURSIVE TrimEnd(_)
TrimEnd(s) ==
  IF s # <<>> /\ IsSpace(s[Len(s)]) THEN TrimEnd(SubSeq(s, 1, Len(s) - 1)) ELSE s

\* str::trim
Trim(s) == TrimEnd(TrimStart(s))

\* str::trim_matches on the double quote character
RECURSIVE TrimQuotes(_)
TrimQuotes(s) ==
  IF s # <<>> /\ s[1] = "\"" THEN TrimQuotes(Tail(s))
  ELSE IF s # <<>> /\ s[Len(s)] = "\"" THEN TrimQuotes(SubSeq(s, 1, Len(s) - 1))
  ELSE s

\* a < b for str (bytewise lexicographic order)
RECURSIVE StrLess(_, _)
StrLess(a, b) ==
  IF b = <<>> THEN FALSE
  ELSE IF a = <<>> THEN TRUE
  ELSE IF Ord(a[1]) # Ord(b[1]) THEN Ord(a[1]) < Ord(b[1])
  ELSE StrLess(Tail(a), Tail(b))

\* a.cmp(b) for str: "Less", "Equal" or "Greater"
StrCmp(a, b) ==
  IF StrLess(a, b) THEN "Less" ELSE IF StrLess(b, a) THEN "Greater" ELSE "Equal"

StartsWith(s, p) == Len(s) >= Len(p) /\ SubSeq(s, 1, Len(p)) = p

EndsWith(s, p) == Len(s) >= Len(p) /\ SubSeq(s, Len(s) - Len(p) + 1, Len(s)) = p

sTrue == <<"t", "r", "u", "e">>
sFalse == <<"f", "a", "l", "s", "e">>
sNone == <<"N", "o", "n", "e">>
sNaN == <<"N", "a", "N">>

\* format!("{}", b) for a bool
FmtBool(b) == IF b THEN sTrue ELSE sFalse

\* eq_case: equality after trimming, ignoring ASCII case
\* A comparison that ignores case only.
eq_caseUntrimmed(a, b) == ToLower(a) = ToLower(b)

eq_case(a, b) == ToLower(Trim(a)) = ToLower(Trim(b))

(* ------------------------------------------------------------------ *)
(* Numbers                                                             *)
(* ------------------------------------------------------------------ *)

AllDigits(s) == \A i \in 1..Len(s) : IsDigit(s[i])

RECURSIVE DigitsVal(_)
DigitsVal(s) ==
  IF s = <<>> THEN 0 ELSE 10 * DigitsVal(SubSeq(s, 1, Len(s) - 1)) + DigitVal(s[Len(s)])

RECURSIVE NatToStr(_)
NatToStr(n) ==
  IF n < 10 THEN <<Ascii[17 + n]>>
  ELSE NatToStr(n \div 10) \o <<Ascii[17 + (n % 10)]>>

HasSign(s) == s # <<>> /\ s[1] \in {"-", "+"}

Unsigned(s) == IF HasSign(s) THEN Tail(s) ELSE s

\* str::parse::<i64>: an optional sign and at least one digit.
IsI64(s) == Unsigned(s) # <<>> /\ AllDigits(Unsigned(s))

I64Val(s) == IF s[1] = "-" THEN 0 - DigitsVal(Unsigned(s)) ELSE DigitsVal(Unsigned(s))

DotAt(s) == IF \E i \in 1..Len(s) : s[i] = "." THEN CHOOSE i \in 1..Len(s) : s[i] = "." /\ \A j \in 1..(i - 1) : s[j] # "." ELSE 0

IntPart(s) == IF DotAt(s) = 0 THEN s ELSE SubSeq(s, 1, DotAt(s) - 1)

FracPart(s) == IF DotAt(s) = 0 THEN <<>> ELSE SubSeq(s, DotAt(s) + 1, Len(s))

\* A decimal without exponent: digits, optionally a point and digits, at least
\* one digit in all ("5.", ".5" are numbers, "." is not).
IsDecimal(u) ==
  /\ AllDigits(IntPart(u))
  /\ AllDigits(FracPart(u))
  /\ Len(IntPart(u)) + Len(FracPart(u)) > 0

\* str::parse::<f64>, for the texts without an exponent part: an optional sign
\* followed by a decimal or by "nan" in any case.
IsF64(s) == ToLower(Unsigned(s)) = ToLower(sNaN) \/ IsDecimal(Unsigned(s))

RECURSIVE StripZeros(_)
StripZeros(s) ==
  IF s # <<>> /\ s[Len(s)] = "0" THEN StripZeros(SubSeq(s, 1, Len(s) - 1)) ELSE s

\* The fraction digits as a number of quarters, or -1 when the fraction is no
\* multiple of 1/4 (such a number is outside the modelled values).
FracQuarters(f) ==
  CASE StripZeros(f) = <<>> -> 0
    [] StripZeros(f) = <<"2", "5">> -> 1
    [] StripZeros(f) = <<"5">> -> 2
    [] StripZeros(f) = <<"7", "5">> -> 3
    [] OTHER -> -1

\* An f64: nan, or q quarters; negz is the sign bit of a zero; rep is FALSE
\* for a value outside the modelled numbers.
Num(q, negz) == [nan |-> FALSE, q |-> q, negz |-> (q = 0 /\ negz), rep |-> TRUE]
NumNaN == [nan |-> TRUE, q |-> 0, negz |-> FALSE, rep |-> TRUE]
NumUnrep == [nan |-> FALSE, q |-> 0, negz |-> FALSE, rep |-> FALSE]

SignBit(n) == n.q < 0 \/ (n.q = 0 /\ n.negz)

\* The value of a text for which IsF64 holds.
F64Val(s) ==
  LET u == Unsigned(s)
      neg == s[1] = "-"
  IN IF ~IsDecimal(u) THEN NumNaN
     ELSE IF FracQuarters(FracPart(u)) < 0 THEN NumUnrep
     ELSE LET m == 4 * DigitsVal(IntPart(u)) + FracQuarters(FracPart(u))
          IN Num(IF neg THEN 0 - m ELSE m, neg)

Abs(i) == IF i < 0 THEN 0 - i ELSE i

\* format!("{}", x) for an f64
FmtF64(n) ==
  IF n.nan THEN sNaN
  ELSE LET m == Abs(n.q)
           frac == CASE m % 4 = 0 -> <<>>
                     [] m % 4 = 1 -> <<".", "2", "5">>
                     [] m % 4 = 2 -> <<".", "5">>
                     [] m % 4 = 3 -> <<".", "7", "5">>
       IN (IF SignBit(n) THEN <<"-">> ELSE <<>>) \o NatToStr(m \div 4) \o frac

\* format!("{}", i) for an i64
FmtI64(i) == (IF i < 0 THEN <<"-">> ELSE <<>>) \o NatToStr(Abs(i))

FNeg(a) == IF a.nan \/ ~a.rep THEN a ELSE Num(0 - a.q, ~SignBit(a))

FAdd(a, b) ==
  IF ~a.rep \/ ~b.rep THEN NumUnrep
  ELSE IF a.nan \/ b.nan THEN NumNaN
  ELSE Num(a.q + b.q, SignBit(a) /\ SignBit(b))

FSub(a, b) == FAdd(a, FNeg(b))

FMul(a, b) ==
  IF ~a.rep \/ ~b.rep THEN NumUnrep
  ELSE IF a.nan \/ b.nan THEN NumNaN
  ELSE IF (a.q * b.q) % 4 # 0 THEN NumUnrep
  ELSE Num((a.q * b.q) \div 4, SignBit(a) # SignBit(b))

\* a / b for b # 0
FQuot(a, b) ==
  IF ~a.rep \/ ~b.rep THEN NumUnrep
  ELSE IF a.nan \/ b.nan THEN NumNaN
  ELSE IF (4 * Abs(a.q)) % Abs(b.q) # 0 THEN NumUnrep
  ELSE LET m == (4 * Abs(a.q)) \div Abs(b.q)
       IN Num(IF SignBit(a) # SignBit(b) THEN 0 - m ELSE m, SignBit(a) # SignBit(b))

\* |a, b| if b != 0.0 { a / b } else { f64::NAN }
FDiv(a, b) ==
  IF ~b.rep THEN NumUnrep
  ELSE IF ~b.nan /\ b.q = 0 THEN NumNaN
  ELSE FQuot(a, b)

\* a % b on i64 for b # 0: the remainder has the sign of the dividend.
I64Rem(a, b) == IF a < 0 THEN 0 - (Abs(a) % Abs(b)) ELSE a % Abs(b)

\* f64::partial_cmp: "None" when either side is NaN
FCmp(a, b) ==
  IF a.nan \/ b.nan THEN "None"
  ELSE IF a.q < b.q THEN "Less" ELSE IF a.q > b.q THEN "Greater" ELSE "Equal"

(* ------------------------------------------------------------------ *)
(* AST (parser/mod.rs)                                                 *)
(* ------------------------------------------------------------------ *)

\* Expr
StringLit(s) == [t |-> "StringLit", s |-> s]
Value(s) == [t |-> "Value", s |-> s]
BinaryOp(l, op, r) == [t |-> "BinaryOp", l |-> l, op |-> op, r |-> r]

\* BinaryOperator
BinaryOperator == {"Add", "Sub", "Mul", "Div", "Mod", "Gt", "Lt", "Ge", "Le", "Eq", "Ne"}

\* BoolExpr: the ten comparison forms and the two combinators
BAtom(t, a, b) == [t |-> t, a |-> a, b |-> b]
BAnd(l, r) == [t |-> "And", l |-> l, r |-> r]
BOr(l, r) == [t |-> "Or", l |-> l, r |-> r]

\* ASTNode
AIModelNode(path) == [t |-> "AIModel", path |-> path]
Neuro(arg) == [t |-> "Neuro", arg |-> arg]
SetVar(name, expr) == [t |-> "SetVar", name |-> name, expr |-> expr]
SetVarFromAI(name, prompt) == [t |-> "SetVarFromAI", name |-> name, prompt |-> prompt]
MacroCall(instr) == [t |-> "MacroCall", instr |-> instr]
NoElse == [some |-> FALSE, blk |-> <<>>]
SomeElse(blk) == [some |-> TRUE, blk |-> blk]
IfStatement(c, body, elifs, els) ==
  [t |-> "IfStatement", condition |-> c, body |-> body, elif_blocks |-> elifs,
   else_body |-> els]

(* ------------------------------------------------------------------ *)
(* Expression evaluation (interpreter/mod.rs, eval_expr)               *)
(* ------------------------------------------------------------------ *)

\* The outcome of an evaluation: st is "ok", "panic" (the thread panics) or
\* "unrep" (the value is a number outside the modelled ones).
Ok(v) == [st |-> "ok", v |-> v]
Panic == [st |-> "panic", v |-> <<>>]
Unrep == [st |-> "unrep", v |-> <<>>]

OfNum(n) == IF n.rep THEN Ok(FmtF64(n)) ELSE Unrep

\* var_or_literal
var_or_literal(vars, k) == IF k \in DOMAIN vars THEN vars[k] ELSE k

\* The closure num of eval_expr applied to the operation f, named by op.
NumOp(op, l, r) ==
  IF IsF64(l) /\ IsF64(r)
  THEN LET a == F64Val(l)
           b == F64Val(r)
       IN CASE op = "Add" -> OfNum(FAdd(a, b))
            [] op = "Sub" -> OfNum(FSub(a, b))
            [] op = "Mul" -> OfNum(FMul(a, b))
            [] op = "Div" -> OfNum(FDiv(a, b))
  ELSE Ok(ArithErr)

\* BinaryOperator::Mod: a % b on i64 panics for b = 0.
ModOp(l, r) ==
  IF IsI64(l) /\ IsI64(r)
  THEN IF I64Val(r) = 0 THEN Panic ELSE Ok(FmtI64(I64Rem(I64Val(l), I64Val(r))))
  ELSE Ok(ModErr)

\* Add that joins the two texts whatever they are.
AddValueJoin(l_raw, r_raw) == Ok(l_raw \o r_raw)

\* BinaryOperator::Add
AddValue(l_raw, r_raw) ==
  IF IsF64(Trim(l_raw)) /\ IsF64(Trim(r_raw))
  THEN NumOp("Add", Trim(l_raw), Trim(r_raw))
  ELSE Ok(l_raw \o r_raw)

\* The match on op of eval_expr, on the evaluated operands.
BinOpValue(op, l_raw, r_raw) ==
  LET l == Trim(l_raw)
      r == Trim(r_raw)
  IN CASE op = "Add" -> AddValue(l_raw, r_raw)
       [] op \in {"Sub", "Mul", "Div"} -> NumOp(op, l, r)
       [] op = "Mod" -> ModOp(l, r)
       [] op = "Gt" -> Ok(FmtBool(StrLess(r, l)))
       [] op = "Lt" -> Ok(FmtBool(StrLess(l, r)))
       [] op = "Ge" -> Ok(FmtBool(~StrLess(l, r)))
       [] op = "Le" -> Ok(FmtBool(~StrLess(r, l)))
       [] op = "Eq" -> Ok(FmtBool(eq_case(l, r)))
       [] op = "Ne" -> Ok(FmtBool(~eq_case(l, r)))

RECURSIVE eval_expr(_, _)
eval_expr(vars, e) ==
  CASE e.t = "StringLit" -> Ok(e.s)
    [] e.t = "Value" ->
         IF IsI64(e.s) THEN Ok(e.s)
         ELSE IF e.s \in {sNone, sTrue, sFalse} THEN Ok(e.s)
         ELSE Ok(var_or_literal(vars, e.s))
    [] e.t = "BinaryOp" ->
         LET L == eval_expr(vars, e.l)
             R == eval_expr(vars, e.r)
         IN IF L.st # "ok" THEN L
            ELSE IF R.st # "ok" THEN R
            ELSE BinOpValue(e.op, L.v, R.v)

(* ------------------------------------------------------------------ *)
(* The classifier (ai/model.rs), as the interpreter uses it            *)
(* ------------------------------------------------------------------ *)

\* Contains(s, p): str::contains
Contains(s, p) == \E i \in 0..(Len(s) - Len(p)) : SubSeq(s, i + 1, i + Len(p)) = p

\* Model files of the host.  A file that is absent makes AIModel::new fail; a
\* file whose graph does not fit the inputs loads, and every predict fails.
PathToxic == <<"t", "o", "x", "i", "c", ".", "o", "n", "n", "x">>
PathBroken == <<"s", "s", "t", "2", ".", "o", "n", "n", "x">>
PathMacro == <<"i", "n", "t", "e", "n", "t", "_", "m", "a", "c", "r", "o", ".", "o", "n", "n", "x">>
PathMissing == <<"n", "o", ".", "o", "n", "n", "x">>
ExistingFiles == {PathToxic, PathBroken, PathMacro}
BrokenFiles == {PathBroken}

\* AIModel::new: the kind is read from the path.
ModelKindOf(path) ==
  IF Contains(path, <<"i", "n", "t", "e", "n", "t", "_", "m", "a", "c", "r", "o">>) THEN "MacroIntent"
  ELSE IF Contains(path, <<"s", "s", "t", "2">>) THEN "SST2"
  ELSE IF Contains(path, <<"t", "o", "x", "i", "c">>) THEN "Toxic"
  ELSE IF Contains(path, <<"f", "a", "c", "t", "c", "h", "e", "c", "k">>) THEN "FactCheck"
  ELSE IF Contains(path, <<"i", "n", "t", "e", "n", "t">>) THEN "Intent"
  ELSE "Unknown"

NoModel == [some |-> FALSE, path |-> <<>>, kind |-> "Unknown"]
SomeModel(path) == [some |-> TRUE, path |-> path, kind |-> ModelKindOf(path)]

AIModel_new(path) ==
  IF path \in ExistingFiles THEN [ok |-> TRUE, m |-> SomeModel(path)]
  ELSE [ok |-> FALSE, m |-> NoModel]

LabelToxic == <<"T", "o", "x", "i", "c">>
LabelNotToxic == <<"N", "o", "t", " ", "t", "o", "x", "i", "c">>
LabelLoop == <<"L", "o", "o", "p">>

\* AIModel::predict: the label of the class with the greatest logit, or an
\* error.  The inference itself is outside the program; a text that holds
\* "bad" is the one the Toxic model labels Toxic.
predict(m, text) ==
  IF m.path \in BrokenFiles THEN [ok |-> FALSE, v |-> <<>>]
  ELSE CASE m.kind = "Toxic" ->
              [ok |-> TRUE, v |-> IF Contains(text, <<"b", "a", "d">>) THEN LabelToxic ELSE LabelNotToxic]
         [] m.kind = "MacroIntent" -> [ok |-> TRUE, v |-> LabelLoop]
         [] OTHER -> [ok |-> TRUE, v |-> <<"u", "n", "k", "n", "o", "w", "n">>]

(* ------------------------------------------------------------------ *)
(* Boolean evaluation (interpreter/mod.rs, eval_bool)                  *)
(* ------------------------------------------------------------------ *)

\* The closure cmp of eval_bool.
cmp(a0, b0) ==
  LET a == Trim(a0)
      b == Trim(b0)
  IN IF IsF64(a) /\ IsF64(b)
     THEN LET o == FCmp(F64Val(a), F64Val(b)) IN IF o = "None" THEN "Equal" ELSE o
     ELSE StrCmp(ToLower(a), ToLower(b))

\* The closure rel of eval_bool; pred is the set of orderings accepted.
rel(vars, l, r, pred) == cmp(var_or_literal(vars, l), var_or_literal(vars, r)) \in pred

\* model.and_then(|m| m.predict(p).ok()): the prediction when there is a model
\* and it succeeds.
Predicted(model, p) ==
  IF model.some /\ predict(model, p).ok
  THEN [some |-> TRUE, v |-> predict(model, p).v]
  ELSE [some |-> FALSE, v |-> <<>>]

\* The texts handed to predict by one evaluation, in call order.
PredictCalls(model, p) == IF model.some THEN <<p>> ELSE <<>>

\* Both operands evaluated, whatever the left one gives.
RightAlways(t, lv) == TRUE

\* Whether `l && r` (And) and `l || r` (Or) evaluate r, given the value of l.
RightEvaluated(t, lv) == IF t = "And" THEN lv ELSE ~lv

\* eval_bool: v is the value, calls the texts handed to predict, in order.
RECURSIVE eval_bool(_, _, _)
eval_bool(vars, model, e) ==
  CASE e.t = "Equals" ->
         [v |-> Predicted(model, e.a).some /\ eq_case(Predicted(model, e.a).v, e.b),
          calls |-> PredictCalls(model, e.a)]
    [] e.t = "NotEquals" ->
         [v |-> Predicted(model, e.a).some /\ ~eq_case(Predicted(model, e.a).v, e.b),
          calls |-> PredictCalls(model, e.a)]
    [] e.t = "EqualsVar" ->
         [v |-> eq_case(var_or_literal(vars, e.a), e.b), calls |-> <<>>]
    [] e.t = "NotEqualsVar" ->
         [v |-> ~eq_case(var_or_literal(vars, e.a), e.b), calls |-> <<>>]
    [] e.t = "VarEqualsVar" ->
         [v |-> eq_case(var_or_literal(vars, e.a), var_or_literal(vars, e.b)), calls |-> <<>>]
    [] e.t = "VarNotEqualsVar" ->
         [v |-> ~eq_case(var_or_literal(vars, e.a), var_or_literal(vars, e.b)), calls |-> <<>>]
    [] e.t = "Greater" -> [v |-> rel(vars, e.a, e.b, {"Greater"}), calls |-> <<>>]
    [] e.t = "GreaterEqual" ->
         [v |-> rel(vars, e.a, e.b, {"Greater", "Equal"}), calls |-> <<>>]
    [] e.t = "Less" -> [v |-> rel(vars, e.a, e.b, {"Less"}), calls |-> <<>>]
    [] e.t = "LessEqual" -> [v |-> rel(vars, e.a, e.b, {"Less", "Equal"}), calls |-> <<>>]
    [] e.t \in {"And", "Or"} ->
         LET L == eval_bool(vars, model, e.l)
         IN IF RightEvaluated(e.t, L.v)
            THEN LET R == eval_bool(vars, model, e.r)
                 IN [v |-> IF e.t = "And" THEN L.v /\ R.v ELSE L.v \/ R.v,
                     calls |-> L.calls \o R.calls]
            ELSE L

(* ------------------------------------------------------------------ *)
(* Lexer (lexer/mod.rs)                                                *)
(* ------------------------------------------------------------------ *)

\* Token: t is the variant; s the text of String and Number.
Tok(t) == [t |-> t, s |-> <<>>]
TString(s) == [t |-> "String", s |-> s]
TNumber(s) == [t |-> "Number", s |-> s]

\* The index at which a line is cut for a comment: the first # outside quotes
\* or the first // outside quotes, or the length plus one.
RECURSIVE CutPos(_, _, _)
CutPos(raw, i, in_quote) ==
  IF i > Len(raw) THEN Len(raw) + 1
  ELSE IF raw[i] = "\"" THEN CutPos(raw, i + 1, ~in_quote)
  ELSE IF raw[i] = "#" /\ ~in_quote THEN i
  ELSE IF raw[i] = "/" /\ ~in_quote /\ StartsWith(SubSeq(raw, i, Len(raw)), <<"/", "/">>) THEN i
  ELSE CutPos(raw, i + 1, in_quote)

\* raw_line.chars().take_while(|c| *c == ' ').count()
RECURSIVE LeadingSpaces(_)
LeadingSpaces(raw) == IF raw # <<>> /\ raw[1] = " " THEN 1 + LeadingSpaces(Tail(raw)) ELSE 0

\* The position of the first double quote of s, or 0.
RECURSIVE QuotePos(_, _)
QuotePos(s, i) == IF i > Len(s) THEN 0 ELSE IF s[i] = "\"" THEN i ELSE QuotePos(s, i + 1)

\* The end of the run of characters of s from i on that satisfy digit-ness.
RECURSIVE DigitsEnd(_, _)
DigitsEnd(s, i) == IF i <= Len(s) /\ IsDigit(s[i]) THEN DigitsEnd(s, i + 1) ELSE i

IsWordChar(c) == IsAlpha(c) \/ IsDigit(c) \/ c = "_"

RECURSIVE WordEnd(_, _)
WordEnd(s, i) == IF i <= Len(s) /\ IsWordChar(s[i]) THEN WordEnd(s, i + 1) ELSE i

\* The end of a number that starts at i: digits, and a point when a digit follows.
NumberEnd(s, i) ==
  LET j == DigitsEnd(s, i)
  IN IF j + 1 <= Len(s) /\ s[j] = "." /\ IsDigit(s[j + 1]) THEN DigitsEnd(s, j + 1) ELSE j

\* The token of a word: a keyword, in any case, or a bare String.
WordToken(word) ==
  LET w == ToLower(word)
  IN CASE w = <<"i", "f">> -> Tok("If")
       [] w = <<"e", "l", "i", "f">> -> Tok("Elif")
       [] w = <<"e", "l", "s", "e">> -> Tok("Else")
       [] w = <<"n", "e", "u", "r", "o">> -> Tok("Neuro")
       [] w = <<"s", "e", "t">> -> Tok("Set")
       [] w = <<"f", "r", "o", "m">> -> Tok("From")
       [] w = <<"m", "a", "c", "r", "o">> -> Tok("Macro")
       [] w = <<"a", "i">> -> Tok("AI")
       [] w = <<"a", "n", "d">> -> Tok("And")
       [] w = <<"o", "r">> -> Tok("Or")
       [] OTHER -> TString(word)

\* The token of a quoted text: a model path is kept bare, any other content is
\* wrapped in quotes again.
QuotedToken(content) ==
  IF EndsWith(content, <<".", "o", "n", "n", "x">>) THEN TString(content)
  ELSE TString(<<"\"">> \o content \o <<"\"">>)

Next2(s, i) == IF i + 1 <= Len(s) THEN s[i + 1] ELSE ""

\* The scan of one trimmed line from position i: ok and the tokens, or not ok
\* (a missing quote, an unexpected character).
RECURSIVE ScanLine(_, _, _)
ScanLine(s, i, acc) ==
  IF i > Len(s) THEN [ok |-> TRUE, toks |-> acc]
  ELSE LET c == s[i]
           two(t) == ScanLine(s, i + 2, Append(acc, Tok(t)))
           one(t) == ScanLine(s, i + 1, Append(acc, Tok(t)))
       IN CASE c = ":" -> one("Colon")
            [] c = "=" -> IF Next2(s, i) = "=" THEN two("Equals") ELSE one("EqualsAssign")
            [] c = "!" /\ Next2(s, i) = "=" -> two("NotEquals")
            [] c = ">" -> IF Next2(s, i) = "=" THEN two("GreaterEqual") ELSE one("GreaterThan")
            [] c = "<" -> IF Next2(s, i) = "=" THEN two("LessEqual") ELSE one("LessThan")
            [] c = "+" -> one("Plus")
            [] c = "-" -> one("Minus")
            [] c = "*" -> one("Star")
            [] c = "/" -> one("Slash")
            [] c = "%" -> one("Percent")
            [] c = "(" -> one("LParen")
            [] c = ")" -> one("RParen")
            [] c = "\"" ->
                 LET e == QuotePos(SubSeq(s, i + 1, Len(s)), 1)
                 IN IF e = 0 THEN [ok |-> FALSE, toks |-> <<>>]
                    ELSE ScanLine(s, i + e + 1,
                                  Append(acc, QuotedToken(SubSeq(s, i + 1, i + e - 1))))
            [] IsDigit(c) ->
                 ScanLine(s, NumberEnd(s, i),
                          Append(acc, TNumber(SubSeq(s, i, NumberEnd(s, i) - 1))))
            [] IsAlpha(c) ->
                 ScanLine(s, WordEnd(s, i),
                          Append(acc, WordToken(SubSeq(s, i, WordEnd(s, i) - 1))))
            [] IsSpace(c) -> ScanLine(s, i + 1, acc)
            [] OTHER -> [ok |-> FALSE, toks |-> <<>>]

\* Pops only down to a level of exactly the indentation, and not at all when
\* there is none.
RECURSIVE PopLevelsExact(_, _, _)
PopLevelsExact(stack, indent, toks) ==
  IF ~(\E i \in 1..Len(stack) : stack[i] = indent) THEN [stack |-> stack, toks |-> toks]
  ELSE IF indent < stack[Len(stack)]
  THEN PopLevelsExact(SubSeq(stack, 1, Len(stack) - 1), indent, Append(toks, Tok("Dedent")))
  ELSE [stack |-> stack, toks |-> toks]

\* No level is closed at the end of the input.
CloseNone(stack, toks) == [stack |-> stack, toks |-> toks]

\* The pops of the Less arm: one Dedent for each level above the indentation.
RECURSIVE PopLevels(_, _, _)
PopLevels(stack, indent, toks) ==
  IF indent < stack[Len(stack)]
  THEN PopLevels(SubSeq(stack, 1, Len(stack) - 1), indent, Append(toks, Tok("Dedent")))
  ELSE [stack |-> stack, toks |-> toks]

\* Indentation handling for a line of the given indentation.
IndentStep(stack, indent, toks) ==
  IF indent > stack[Len(stack)]
  THEN [stack |-> Append(stack, indent), toks |-> Append(toks, Tok("Indent"))]
  ELSE IF indent < stack[Len(stack)] THEN PopLevels(stack, indent, toks)
  ELSE [stack |-> stack, toks |-> toks]

\* The state of tokenize between two lines.
LexStart == [stack |-> <<0>>, toks |-> <<>>, ok |-> TRUE]

\* The body of the loop over the lines, for the line raw.
LineStep(ls, raw) ==
  LET line == SubSeq(raw, 1, CutPos(raw, 1, FALSE) - 1)
      trimmed == Trim(line)
  IN IF trimmed = <<>> THEN ls
     ELSE IF StartsWith(trimmed, <<"#">>) \/ StartsWith(trimmed, <<"/", "/">>)
     THEN [ls EXCEPT !.toks = @ \o <<Tok("Comment"), Tok("Newline")>>]
     ELSE LET ind == IndentStep(ls.stack, LeadingSpaces(raw), ls.toks)
              sc == ScanLine(trimmed, 1, <<>>)
          IN IF ~sc.ok THEN [stack |-> ind.stack, toks |-> <<>>, ok |-> FALSE]
             ELSE [stack |-> ind.stack, toks |-> ind.toks \o sc.toks \o <<Tok("Newline")>>,
                   ok |-> TRUE]

\* Close any remaining indentation levels.
RECURSIVE CloseLevels(_, _)
CloseLevels(stack, toks) ==
  IF Len(stack) > 1
  THEN CloseLevels(SubSeq(stack, 1, Len(stack) - 1), Append(toks, Tok("Dedent")))
  ELSE [stack |-> stack, toks |-> toks]

RECURSIVE LexLines(_, _)
LexLines(ls, lines) ==
  IF lines = <<>> \/ ~ls.ok THEN ls ELSE LexLines(LineStep(ls, lines[1]), Tail(lines))

\* tokenize, on the lines of the input: ok and the tokens, or not ok.
tokenize(lines) ==
  LET ls == LexLines(LexStart, lines)
  IN IF ~ls.ok THEN [ok |-> FALSE, toks |-> <<>>]
     ELSE [ok |-> TRUE, toks |-> CloseLevels(ls.stack, ls.toks).toks]

(* ------------------------------------------------------------------ *)
(* Parser (parser/mod.rs)                                              *)
(* ------------------------------------------------------------------ *)

\* Option<T> together with the tokens the iterator still holds.
Some(v, rest) == [some |-> TRUE, v |-> v, rest |-> rest]
None(rest) == [some |-> FALSE, v |-> <<>>, rest |-> rest]

\* it.peek(), as the variant of the token, and the iterator after it.next().
PeekT(it) == IF it = <<>> THEN "None" ELSE it[1].t
Rest(it) == IF it = <<>> THEN <<>> ELSE Tail(it)

\* expect(t1, it)?; expect(t2, it)?; ... : each call consumes a token, the
\* first mismatch ends the chain.
RECURSIVE ExpectSeq(_, _)
ExpectSeq(ts, it) ==
  IF ts = <<>> THEN [ok |-> TRUE, rest |-> it]
  ELSE IF it = <<>> THEN [ok |-> FALSE, rest |-> <<>>]
  ELSE IF it[1].t = ts[1] THEN ExpectSeq(Tail(ts), Tail(it))
  ELSE [ok |-> FALSE, rest |-> Tail(it)]

\* skip_newlines
RECURSIVE skip_newlines(_)
skip_newlines(it) == IF PeekT(it) = "Newline" THEN skip_newlines(Tail(it)) ELSE it

\* if let Some(Token::String(s)) = it.next(), after the chain h.
TakeString(h) ==
  IF ~h.ok THEN None(h.rest)
  ELSE IF PeekT(h.rest) = "String" THEN Some(h.rest[1].s, Tail(h.rest))
  ELSE None(Rest(h.rest))

\* is_lit and strip_if_lit of parse_bool_atom; the test of parse_factor.
is_lit(s) == StartsWith(s, <<"\"">>) /\ EndsWith(s, <<"\"">>)
strip_if_lit(s) == IF is_lit(s) THEN TrimQuotes(s) ELSE s

(* ---------- arithmetic expr ---------- *)

RECURSIVE parse_expr(_), parse_term(_), parse_factor(_), ExprLoop(_), TermLoop(_)

\* 0 - inner, for a leading minus.
NegFactor(inner) ==
  IF inner.some THEN Some(BinaryOp(Value(<<"0">>), "Sub", inner.v), inner.rest) ELSE inner

\* ( inner ) : the closing parenthesis is required.
ParenFactor(inner) ==
  IF ~inner.some THEN inner
  ELSE IF PeekT(inner.rest) = "RParen" THEN Some(inner.v, Tail(inner.rest))
  ELSE None(Rest(inner.rest))

parse_factor(it) ==
  CASE PeekT(it) = "None" -> None(<<>>)
    [] PeekT(it) = "Minus" -> NegFactor(parse_factor(Tail(it)))
    [] PeekT(it) = "Number" -> Some(Value(it[1].s), Tail(it))
    [] PeekT(it) = "String" ->
         IF is_lit(it[1].s) THEN Some(StringLit(TrimQuotes(it[1].s)), Tail(it))
         ELSE Some(Value(it[1].s), Tail(it))
    [] PeekT(it) = "LParen" -> ParenFactor(parse_expr(Tail(it)))
    [] OTHER -> None(Tail(it))

TermOp(t) ==
  CASE t = "Star" -> "Mul" [] t = "Slash" -> "Div" [] t = "Percent" -> "Mod" [] OTHER -> "none"

ExprOp(t) ==
  CASE t = "Plus" -> "Add" [] t = "Minus" -> "Sub" [] t = "GreaterThan" -> "Gt"
    [] t = "LessThan" -> "Lt" [] t = "GreaterEqual" -> "Ge" [] t = "LessEqual" -> "Le"
    [] t = "Equals" -> "Eq" [] t = "NotEquals" -> "Ne" [] OTHER -> "none"

\* lhs = BinaryOp(lhs, op, rhs), and the loop goes on.
TermStep(lhs, op, rhs) ==
  IF rhs.some THEN TermLoop(Some(BinaryOp(lhs.v, op, rhs.v), rhs.rest)) ELSE rhs

\* The loop of parse_term: it.peek()? ends the function with None when the
\* tokens are exhausted.
TermLoop(lhs) ==
  IF lhs.rest = <<>> THEN None(<<>>)
  ELSE IF TermOp(lhs.rest[1].t) # "none"
  THEN TermStep(lhs, TermOp(lhs.rest[1].t), parse_factor(Tail(lhs.rest)))
  ELSE lhs

TermStart(lhs) == IF lhs.some THEN TermLoop(lhs) ELSE lhs

parse_term(it) == TermStart(parse_factor(it))

ExprStep(lhs, op, rhs) ==
  IF rhs.some THEN ExprLoop(Some(BinaryOp(lhs.v, op, rhs.v), rhs.rest)) ELSE rhs

\* The loop of parse_expr, with the same it.peek()?.
ExprLoop(lhs) ==
  IF lhs.rest = <<>> THEN None(<<>>)
  ELSE IF ExprOp(lhs.rest[1].t) # "none"
  THEN ExprStep(lhs, ExprOp(lhs.rest[1].t), parse_term(Tail(lhs.rest)))
  ELSE lhs

ExprStart(lhs) == IF lhs.some THEN ExprLoop(lhs) ELSE lhs

parse_expr(it) == ExprStart(parse_term(it))

(* ---------- boolean expr ---------- *)

\* The closure take_value of parse_bool_atom.
take_value(it) ==
  CASE PeekT(it) = "None" -> None(<<>>)
    [] PeekT(it) = "Minus" ->
         IF PeekT(Tail(it)) = "Number" THEN Some(<<"-">> \o it[2].s, Tail(Tail(it)))
         ELSE None(Rest(Tail(it)))
    [] PeekT(it) \in {"String", "Number"} -> Some(it[1].s, Tail(it))
    [] OTHER -> None(Tail(it))

\* The arms Token::Equals and Token::NotEquals: the three node kinds.
EqualityAtom(var_var, var_lit, lit_lit, l, r) ==
  IF ~is_lit(l) /\ ~is_lit(r) THEN BAtom(var_var, l, r)
  ELSE IF ~is_lit(l) THEN BAtom(var_lit, l, TrimQuotes(r))
  ELSE BAtom(lit_lit, TrimQuotes(l), TrimQuotes(r))

\* The match on op of parse_bool_atom.
AtomNode(l, op, r) ==
  CASE op = "Equals" -> Some(EqualityAtom("VarEqualsVar", "EqualsVar", "Equals", l, r.v), r.rest)
    [] op = "NotEquals" ->
         Some(EqualityAtom("VarNotEqualsVar", "NotEqualsVar", "NotEquals", l, r.v), r.rest)
    [] op = "GreaterThan" -> Some(BAtom("Greater", strip_if_lit(l), strip_if_lit(r.v)), r.rest)
    [] op = "GreaterEqual" ->
         Some(BAtom("GreaterEqual", strip_if_lit(l), strip_if_lit(r.v)), r.rest)
    [] op = "LessThan" -> Some(BAtom("Less", strip_if_lit(l), strip_if_lit(r.v)), r.rest)
    [] op = "LessEqual" -> Some(BAtom("LessEqual", strip_if_lit(l), strip_if_lit(r.v)), r.rest)
    [] OTHER -> None(r.rest)

\* let r = take_value(it)?
AtomRight(l, op, r) == IF r.some THEN AtomNode(l, op, r) ELSE r

\* let op = it.next()?
AtomOp(l) ==
  IF ~l.some THEN l
  ELSE IF l.rest = <<>> THEN None(<<>>)
  ELSE AtomRight(l.v, l.rest[1].t, take_value(Tail(l.rest)))

parse_bool_atom(it) == AtomOp(take_value(it))

RECURSIVE BoolLoop(_)

\* `and` binding tighter than `or`: the rhs joins the right operand of an Or.
BoolStepAndFirst(expr, and, rhs) ==
  IF ~rhs.some THEN rhs
  ELSE IF and /\ expr.v.t = "Or"
  THEN BoolLoop(Some(BOr(expr.v.l, BAnd(expr.v.r, rhs.v)), rhs.rest))
  ELSE BoolLoop(Some(IF and THEN BAnd(expr.v, rhs.v) ELSE BOr(expr.v, rhs.v), rhs.rest))

BoolStep(expr, and, rhs) ==
  IF ~rhs.some THEN rhs
  ELSE BoolLoop(Some(IF and THEN BAnd(expr.v, rhs.v) ELSE BOr(expr.v, rhs.v), rhs.rest))

\* The loop of parse_bool_expr: conditions chained from left to right.
BoolLoop(expr) ==
  IF PeekT(expr.rest) \in {"And", "Or"}
  THEN BoolStep(expr, PeekT(expr.rest) = "And", parse_bool_atom(Tail(expr.rest)))
  ELSE expr

BoolStart(expr) == IF expr.some THEN BoolLoop(expr) ELSE expr

parse_bool_expr(it) == BoolStart(parse_bool_atom(it))

(* ---------- statement, block ---------- *)

RECURSIVE parse_statement(_), parse_block(_, _), ElifLoop(_, _)

\* AI: "path"
AIStmt(r) == IF r.some THEN Some(AIModelNode(r.v), r.rest) ELSE r

\* neuro "text"
NeuroStmt(r) == IF r.some THEN Some(Neuro(r.v), r.rest) ELSE r

\* set var = expr
SetVarStmt(var, expr) == IF expr.some THEN Some(SetVar(var, expr.v), expr.rest) ELSE expr

\* set var from AI: "prompt"
SetFromStmt(var, prompt) ==
  IF prompt.some THEN Some(SetVarFromAI(var, prompt.v), prompt.rest) ELSE prompt

\* An arm Token::Set that takes a bare word after the name as it takes the
\* sign =.
SetStmtWord(it) ==
  IF PeekT(it) # "String" THEN None(Rest(it))
  ELSE IF PeekT(Tail(it)) \in {"EqualsAssign", "String"}
  THEN SetVarStmt(it[1].s, parse_expr(Tail(Tail(it))))
  ELSE None(Tail(it))

\* The arm Token::Set, after the keyword: the name, then = or from.
SetStmt(it) ==
  IF PeekT(it) # "String" THEN None(Rest(it))
  ELSE CASE PeekT(Tail(it)) = "EqualsAssign" ->
              SetVarStmt(it[1].s, parse_expr(Tail(Tail(it))))
         [] PeekT(Tail(it)) = "From" ->
              SetFromStmt(it[1].s, TakeString(ExpectSeq(<<"AI", "Colon">>, Tail(Tail(it)))))
         [] OTHER -> None(Tail(it))

\* The texts of the String and Number tokens up to a Newline, a Dedent, the
\* end or another token.
RECURSIVE MacroParts(_, _)
MacroParts(it, parts) ==
  IF PeekT(it) \in {"String", "Number"} THEN MacroParts(Tail(it), Append(parts, it[1].s))
  ELSE [parts |-> parts, rest |-> it]

\* parts.join(" ")
RECURSIVE JoinSpace(_)
JoinSpace(parts) ==
  IF Len(parts) = 1 THEN parts[1] ELSE parts[1] \o <<" ">> \o JoinSpace(Tail(parts))

MacroOf(p) == IF p.parts # <<>> THEN Some(MacroCall(JoinSpace(p.parts)), p.rest) ELSE None(p.rest)

\* The arm Token::Macro, after the keyword.
MacroStmt(h) == IF h.ok THEN MacroOf(MacroParts(h.rest, <<>>)) ELSE None(h.rest)

\* expect(Colon)?; skip_newlines; expect(Indent)? : the start of a block.
BlockIndent(it) == ExpectSeq(<<"Indent">>, skip_newlines(it))

BlockStart(h) == IF h.ok THEN BlockIndent(h.rest) ELSE h

\* A statement under construction: the parts parsed so far.
IfParts(c, body, elifs) == [condition |-> c, body |-> body, elif_blocks |-> elifs]

ElseBlock(p, b) ==
  Some(IfStatement(p.condition, p.body, p.elif_blocks, SomeElse(b.v)), b.rest)

ElseStart(p, h) == IF h.ok THEN ElseBlock(p, parse_block(h.rest, <<>>)) ELSE None(h.rest)

\* The optional else block, and the node.
ElseOf(p, it) ==
  IF PeekT(it) = "Else" THEN ElseStart(p, BlockStart(ExpectSeq(<<"Colon">>, Tail(it))))
  ELSE Some(IfStatement(p.condition, p.body, p.elif_blocks, NoElse), it)

ElifBlock(p, c, b) ==
  ElifLoop(IfParts(p.condition, p.body, Append(p.elif_blocks, [c |-> c, blk |-> b.v])), b.rest)

ElifStart(p, c, h) == IF h.ok THEN ElifBlock(p, c, parse_block(h.rest, <<>>)) ELSE None(h.rest)

ElifCond(p, c) ==
  IF c.some THEN ElifStart(p, c.v, BlockStart(ExpectSeq(<<"Colon">>, c.rest))) ELSE c

\* while matches!(it.peek(), Some(Token::Elif))
ElifLoop(p, it) ==
  IF PeekT(it) = "Elif" THEN ElifCond(p, parse_bool_expr(Tail(it))) ELSE ElseOf(p, it)

IfBlock(c, b) == ElifLoop(IfParts(c, b.v, <<>>), b.rest)

IfStart(c, h) == IF h.ok THEN IfBlock(c, parse_block(h.rest, <<>>)) ELSE None(h.rest)

\* The arm Token::If, after the condition.
IfStmt(c) == IF c.some THEN IfStart(c.v, BlockStart(ExpectSeq(<<"Colon">>, c.rest))) ELSE c

parse_statement(it) ==
  CASE PeekT(it) = "None" -> None(<<>>)
    [] PeekT(it) = "AI" -> AIStmt(TakeString(ExpectSeq(<<"Colon">>, Tail(it))))
    [] PeekT(it) = "Neuro" -> NeuroStmt(TakeString([ok |-> TRUE, rest |-> Tail(it)]))
    [] PeekT(it) = "Set" -> SetStmt(Tail(it))
    [] PeekT(it) = "Macro" -> MacroStmt(ExpectSeq(<<"From", "AI", "Colon">>, Tail(it)))
    [] PeekT(it) = "If" -> IfStmt(parse_bool_expr(Tail(it)))
    [] PeekT(it) = "Comment" -> None(Tail(it))
    [] OTHER -> None(it)

\* One iteration of the loop of parse_block, its statement parsed as r.
BlockStmt(r, block) ==
  IF r.some THEN [done |-> FALSE, it |-> r.rest, block |-> Append(block, r.v)]
  ELSE [done |-> FALSE, it |-> Rest(r.rest), block |-> block]

\* One iteration of the loop of parse_block.
BlockIter(it, block) ==
  CASE PeekT(it) = "Dedent" -> [done |-> TRUE, it |-> Tail(it), block |-> block]
    [] PeekT(it) = "Newline" -> [done |-> FALSE, it |-> Tail(it), block |-> block]
    [] PeekT(it) = "None" -> [done |-> TRUE, it |-> it, block |-> block]
    [] OTHER -> BlockStmt(parse_statement(it), block)

BlockNext(i) == IF i.done THEN [v |-> i.block, rest |-> i.it] ELSE parse_block(i.it, i.block)

parse_block(it, block) == BlockNext(BlockIter(it, block))

\* An iteration that pushes the node and, for None, leaves the iterator where
\* parse_statement left it.
ParseStmtKeep(r, nodes) ==
  IF r.some THEN [it |-> r.rest, ast |-> Append(nodes, r.v)]
  ELSE [it |-> r.rest, ast |-> nodes]

\* One iteration of the loop of parse, its statement parsed as r.
ParseStmt(r, nodes) ==
  IF r.some THEN [it |-> r.rest, ast |-> Append(nodes, r.v)]
  ELSE [it |-> Rest(r.rest), ast |-> nodes]

RECURSIVE ParseLoop(_)
ParseLoop(p) == IF p.it = <<>> THEN p.ast ELSE ParseLoop(ParseStmt(parse_statement(p.it), p.ast))

parse(toks) == ParseLoop([it |-> toks, ast |-> <<>>])

(* ------------------------------------------------------------------ *)
(* Macro synthesis (interpreter/mod.rs): scanning of the instruction   *)
(* ------------------------------------------------------------------ *)

\* An optional text.
NoText == [some |-> FALSE, v |-> <<>>]
SomeText(s) == [some |-> TRUE, v |-> s]

\* The first character of [A-Za-z_][\w]* (the class \w is IsWordChar)
IsIdentStart(c) == IsAlpha(c) \/ c = "_"

\* s continues with p at position i.
At(s, i, p) == i >= 1 /\ i + Len(p) - 1 <= Len(s) /\ SubSeq(s, i, i + Len(p) - 1) = p

\* s continues at position i with one of the words ws.
AtAny(s, i, ws) == \E w \in ws : At(s, i, w)

\* The word of ws that s continues with at position i.
WordAt(s, i, ws) == CHOOSE w \in ws : At(s, i, w)

\* str::find and str::rfind: the position of the first and of the last
\* occurrence of p in s, 0 when there is none.
Find(s, p) == IF Contains(s, p) THEN Min({i \in 1..Len(s) : At(s, i, p)}) ELSE 0
RFind(s, p) == IF Contains(s, p) THEN Max({i \in 1..Len(s) : At(s, i, p)}) ELSE 0

\* s from position i on.
From(s, i) == SubSeq(s, i, Len(s))

\* The assertion \b in front of position i of s.
WordChar(s, i) == i >= 1 /\ i <= Len(s) /\ IsWordChar(s[i])
Boundary(s, i) == WordChar(s, i - 1) # WordChar(s, i)

\* The position behind the longest run of whitespace that starts at position i
\* of s (DigitsEnd and WordEnd are those of digits and of word characters).
RECURSIVE SpacesEnd(_, _)
SpacesEnd(s, i) == IF i <= Len(s) /\ IsSpace(s[i]) THEN SpacesEnd(s, i + 1) ELSE i

\* str::replace(c, "") and str::replace(a, b) for characters
Without(s, cs) == SelectSeq(s, LAMBDA c : c \notin cs)
ReplaceChar(s, a, b) == [i \in 1..Len(s) |-> IF s[i] = a THEN b ELSE s[i]]

\* str::trim_matches, str::trim_end_matches for a set of characters
RECURSIVE TrimEndChars(_, _)
TrimEndChars(s, cs) ==
  IF s # <<>> /\ s[Len(s)] \in cs THEN TrimEndChars(SubSeq(s, 1, Len(s) - 1), cs) ELSE s

RECURSIVE TrimStartChars(_, _)
TrimStartChars(s, cs) ==
  IF s # <<>> /\ s[1] \in cs THEN TrimStartChars(Tail(s), cs) ELSE s

TrimChars(s, cs) == TrimEndChars(TrimStartChars(s, cs), cs)

\* strip_wrapping_quotes: the loop, on the trimmed text t.
Wrapped(t) ==
  \/ (t # <<>> /\ t[1] = "\"" /\ t[Len(t)] = "\"")
  \/ (t # <<>> /\ t[1] = "'" /\ t[Len(t)] = "'")

RECURSIVE StripLoop(_)
StripLoop(t) ==
  IF Wrapped(t) /\ Len(t) > 1 THEN StripLoop(Trim(SubSeq(t, 2, Len(t) - 1))) ELSE t

strip_wrapping_quotes(s) == StripLoop(Trim(s))

\* The characters sanitize_text trims from both ends (the ellipsis is outside
\* the modelled characters).
SanitizeChars == {"\"", "'", " ", ".", ",", "!", "?"}

sanitize_text(s) == Trim(TrimChars(strip_wrapping_quotes(s), SanitizeChars))

\* neuro_line
neuro_line(msg) ==
  <<"n", "e", "u", "r", "o", " ", "\"">> \o Trim(Without(strip_wrapping_quotes(msg), {"\"", "'"})) \o <<"\"">>

\* The match of '([^']+)'|"([^"]+)" that starts at position i of s: the
\* position of the closing quote, 0 when there is no match at i.
Closing(s, i) ==
  IF s[i] \in {"'", "\""} /\ (\E j \in (i + 1)..Len(s) : s[j] = s[i])
  THEN Min({j \in (i + 1)..Len(s) : s[j] = s[i]})
  ELSE 0

QuotedAt(s, i) == Closing(s, i) > i + 1

\* first_quoted
first_quoted(s) ==
  IF \E i \in 1..Len(s) : QuotedAt(s, i)
  THEN SomeText(SubSeq(s, Min({i \in 1..Len(s) : QuotedAt(s, i)}) + 1,
                       Closing(s, Min({i \in 1..Len(s) : QuotedAt(s, i)})) - 1))
  ELSE NoText

\* all_quoted: the matches one after the other, from position i on.
RECURSIVE AllQuotedFrom(_, _)
AllQuotedFrom(s, i) ==
  IF i > Len(s) THEN <<>>
  ELSE IF QuotedAt(s, i)
       THEN <<SubSeq(s, i + 1, Closing(s, i) - 1)>> \o AllQuotedFrom(s, Closing(s, i) + 1)
       ELSE AllQuotedFrom(s, i + 1)

all_quoted(s) == AllQuotedFrom(s, 1)

(* ------------------------------------------------------------------ *)
(* Macro synthesis: the Loop template                                  *)
(* ------------------------------------------------------------------ *)

\* The least position of a set of positions, 0 when the set is empty (the
\* start of the leftmost match of a pattern).
Leftmost(S) == IF S = {} THEN 0 ELSE Min(S)

Range(f) == {f[i] : i \in DOMAIN f}

\* usize::MAX, and str::parse::<usize> of a run of digits: the number without
\* its leading zeros, none when it is above usize::MAX.
MaxUsize == <<"1", "8", "4", "4", "6", "7", "4", "4", "0", "7", "3", "7", "0", "9", "5", "5", "1", "6", "1", "5">>

Canonical(d) ==
  IF TrimStartChars(d, {"0"}) = <<>> THEN <<"0">> ELSE TrimStartChars(d, {"0"})

FitsUsize(d) ==
  \/ Len(Canonical(d)) < Len(MaxUsize)
  \/ (Len(Canonical(d)) = Len(MaxUsize) /\ ~StrLess(MaxUsize, Canonical(d)))

ParseUsize(d) == IF FitsUsize(d) THEN SomeText(Canonical(d)) ELSE NoText

\* The run of digits that starts at position i of s.
DigitsFrom(s, i) == SubSeq(s, i, DigitsEnd(s, i) - 1)

\* (?:times?|time)\b at position k of the lowercase text lp
TimesAt(lp, k) ==
  \/ (At(lp, k, <<"t", "i", "m", "e", "s">>) /\ Boundary(lp, k + 5))
  \/ (At(lp, k, <<"t", "i", "m", "e">>) /\ Boundary(lp, k + 4))

\* \b(\d+)\s*(?:times?|time)\b at position i
DigitTimesAt(lp, i) ==
  /\ IsDigit(lp[i])
  /\ Boundary(lp, i)
  /\ TimesAt(lp, SpacesEnd(lp, DigitsEnd(lp, i)))

\* \b(\d+)\s*x\b at position i
XAt(lp, k) == At(lp, k, <<"x">>) /\ Boundary(lp, k + 1)

DigitXAt(lp, i) ==
  /\ IsDigit(lp[i])
  /\ Boundary(lp, i)
  /\ XAt(lp, SpacesEnd(lp, DigitsEnd(lp, i)))

\* \b(once|twice|thrice)\b at position i
OnceWords == <<<<"o", "n", "c", "e">>, <<"t", "w", "i", "c", "e">>, <<"t", "h", "r", "i", "c", "e">>>>

OnceAt(lp, i) ==
  /\ Boundary(lp, i)
  /\ AtAny(lp, i, Range(OnceWords))
  /\ Boundary(lp, i + Len(WordAt(lp, i, Range(OnceWords))))

\* \b(one|two|...|twelve)\s+times?\b at position i
NumberWords ==
  << <<"o", "n", "e">>, <<"t", "w", "o">>, <<"t", "h", "r", "e", "e">>, <<"f", "o", "u", "r">>, <<"f", "i", "v", "e">>, <<"s", "i", "x">>, <<"s", "e", "v", "e", "n">>,
     <<"e", "i", "g", "h", "t">>, <<"n", "i", "n", "e">>, <<"t", "e", "n">>, <<"e", "l", "e", "v", "e", "n">>, <<"t", "w", "e", "l", "v", "e">> >>

SpacedTimes(lp, k) == IsSpace(lp[k]) /\ TimesAt(lp, SpacesEnd(lp, k))

NumberWordAt(lp, i) ==
  /\ Boundary(lp, i)
  /\ AtAny(lp, i, Range(NumberWords))
  /\ i + Len(WordAt(lp, i, Range(NumberWords))) <= Len(lp)
  /\ SpacedTimes(lp, i + Len(WordAt(lp, i, Range(NumberWords))))

\* The start of the leftmost match of each of the four patterns.
DigitTimesPos(lp) == Leftmost({i \in 1..Len(lp) : DigitTimesAt(lp, i)})
DigitXPos(lp) == Leftmost({i \in 1..Len(lp) : DigitXAt(lp, i)})
OncePos(lp) == Leftmost({i \in 1..Len(lp) : OnceAt(lp, i)})
NumberWordPos(lp) == Leftmost({i \in 1..Len(lp) : NumberWordAt(lp, i)})

\* The number a word of the sequence ws stands for: its place in ws.
PlaceOf(w, ws) == NatToStr(CHOOSE n \in DOMAIN ws : ws[n] = w)

\* loop_count_from_prompt on the unwrapped, lowercase prompt lp: the count as
\* a decimal numeral.
CountIn(lp) ==
  IF DigitTimesPos(lp) > 0 THEN ParseUsize(DigitsFrom(lp, DigitTimesPos(lp)))
  ELSE IF DigitXPos(lp) > 0 THEN ParseUsize(DigitsFrom(lp, DigitXPos(lp)))
  ELSE IF OncePos(lp) > 0
       THEN SomeText(PlaceOf(WordAt(lp, OncePos(lp), Range(OnceWords)), OnceWords))
  ELSE IF NumberWordPos(lp) > 0
       THEN SomeText(PlaceOf(WordAt(lp, NumberWordPos(lp), Range(NumberWords)), NumberWords))
  ELSE NoText

loop_count_from_prompt(prompt) == CountIn(ToLower(strip_wrapping_quotes(prompt)))

\* The pattern ^(?:w1|w2|...)\s+ replaced by nothing at the start of s.
DropLead(s, ws) ==
  IF AtAny(ToLower(s), 1, ws)
     /\ Len(WordAt(ToLower(s), 1, ws)) < Len(s)
     /\ IsSpace(s[Len(WordAt(ToLower(s), 1, ws)) + 1])
  THEN From(s, SpacesEnd(s, Len(WordAt(ToLower(s), 1, ws)) + 1))
  ELSE s

ShowVerbs ==
  { <<"r", "e", "v", "e", "a", "l">>, <<"p", "r", "e", "s", "e", "n", "t">>, <<"s", "h", "o", "w">>, <<"s", "a", "y">>, <<"p", "r", "i", "n", "t">>, <<"o", "u", "t", "p", "u", "t">>, <<"e", "c", "h", "o">>,
    <<"d", "i", "s", "p", "l", "a", "y">>, <<"a", "n", "n", "o", "u", "n", "c", "e">> }

\* The pattern ^loop\s*:?\s* replaced by nothing at the start of s.
AfterColon(s, i) == IF i <= Len(s) /\ s[i] = ":" THEN SpacesEnd(s, i + 1) ELSE i

DropLoop(s) ==
  IF At(ToLower(s), 1, <<"l", "o", "o", "p">>) THEN From(s, AfterColon(s, SpacesEnd(s, 5))) ELSE s

\* The pattern ^the\s+phrase\s+ replaced by nothing at the start of s.
PhraseAt(s, k) ==
  /\ k > 4
  /\ At(ToLower(s), k, <<"p", "h", "r", "a", "s", "e">>)
  /\ k + 6 <= Len(s)
  /\ IsSpace(s[k + 6])

DropThePhrase(s) ==
  IF At(ToLower(s), 1, <<"t", "h", "e">>) /\ PhraseAt(s, SpacesEnd(s, 4))
  THEN From(s, SpacesEnd(s, SpacesEnd(s, 4) + 6))
  ELSE s

\* The pattern ^run\s+\d+\s+times:\s*(.+)$ on the trimmed prompt t: the
\* position where the capture starts, 0 when the pattern does not match.
TimesColonAt(t, k, e) ==
  IF e > k /\ e <= Len(t) /\ IsSpace(t[e]) /\ At(ToLower(t), SpacesEnd(t, e), <<"t", "i", "m", "e", "s", ":">>)
     /\ SpacesEnd(t, e) + 6 <= Len(t)
  THEN SpacesEnd(t, SpacesEnd(t, e) + 6)
  ELSE 0

RunTimesTail(t) ==
  IF At(ToLower(t), 1, <<"r", "u", "n">>) /\ Len(t) > 3 /\ IsSpace(t[4])
  THEN TimesColonAt(t, SpacesEnd(t, 4), DigitsEnd(t, SpacesEnd(t, 4)))
  ELSE 0

\* The start of the leftmost match of the count pattern of
\* loop_message_from_prompt.
CountAt(lp, i) ==
  \/ DigitTimesAt(lp, i)
  \/ DigitXAt(lp, i)
  \/ OnceAt(lp, i)
  \/ NumberWordAt(lp, i)

CountPos(lp) == Leftmost({i \in 1..Len(lp) : CountAt(lp, i)})

\* The text in front of the count, or the whole prompt.
HeadOf(p, pos) == IF pos > 0 THEN Trim(SubSeq(p, 1, pos - 1)) ELSE Trim(p)

\* The verbs and fillers dropped from the head, one after another.
StripHead(head) ==
  DropThePhrase(DropLead(DropLead(DropLoop(DropLead(head, {<<"p", "l", "e", "a", "s", "e">>, <<"k", "i", "n", "d", "l", "y">>})),
                                  {<<"r", "e", "p", "e", "a", "t">>, <<"r", "u", "n">>}),
                         ShowVerbs))

\* Step 3 of loop_message_from_prompt, the head stripped.
HeadMessage(head, p) == IF head # <<>> THEN head ELSE sanitize_text(p)

FromHead(p) ==
  HeadMessage(
    sanitize_text(Trim(TrimEndChars(Trim(StripHead(HeadOf(p, CountPos(ToLower(p))))), {":", ","}))),
    p)

\* Step 2: Run N times: <verb?> <msg>
TailMessage(msg, p) == IF msg # <<>> THEN msg ELSE FromHead(p)

FromRunTimes(p, tail) ==
  IF tail > 0
  THEN TailMessage(sanitize_text(DropLead(Trim(From(Trim(p), tail)), ShowVerbs)), p)
  ELSE FromHead(p)

\* Step 1: the first quoted text.
QuotedMessage(q, p) ==
  IF q.some /\ sanitize_text(q.v) # <<>> THEN sanitize_text(q.v)
  ELSE FromRunTimes(p, RunTimesTail(Trim(p)))

loop_message_from_prompt(prompt) ==
  QuotedMessage(first_quoted(strip_wrapping_quotes(prompt)), strip_wrapping_quotes(prompt))

\* looks_like_loop_prompt
looks_like_loop_prompt(prompt) ==
  \/ Contains(ToLower(prompt), <<" ", "t", "i", "m", "e", "s">>)
  \/ Contains(ToLower(prompt), <<" ", "t", "i", "m", "e">>)
  \/ Contains(ToLower(prompt), <<" ", "o", "n", "c", "e">>)
  \/ Contains(ToLower(prompt), <<" ", "t", "w", "i", "c", "e">>)
  \/ Contains(ToLower(prompt), <<" ", "t", "h", "r", "i", "c", "e">>)
  \/ DigitXPos(ToLower(prompt)) > 0
  \/ loop_count_from_prompt(prompt).some

\* usize::clamp(1, 12) of a count given as a decimal numeral.
LoopMin == 1
LoopMax == 12

\* A clamp from below only.
ClampBelow(d) == IF Len(d) > 2 THEN 100 ELSE Max({LoopMin, DigitsVal(d)})

Clamp(d) ==
  IF Len(d) > 2 THEN LoopMax ELSE Max({LoopMin, Min({LoopMax, DigitsVal(d)})})

\* loop_count_from_prompt(..).unwrap_or(1).clamp(1, 12)
TimesOf(c) == IF c.some THEN Clamp(c.v) ELSE Clamp(<<"1">>)

\* format!("neuro \"{msg}\"")
NeuroQuoted(msg) == <<"n", "e", "u", "r", "o", " ", "\"">> \o msg \o <<"\"">>

\* build_loop_dsl: the lines of the synthesized text.
build_loop_dsl(prompt) ==
  [i \in 1..TimesOf(loop_count_from_prompt(strip_wrapping_quotes(prompt))) |->
     NeuroQuoted(loop_message_from_prompt(strip_wrapping_quotes(prompt)))]

(* ------------------------------------------------------------------ *)
(* Macro synthesis: the Branch template                                *)
(* ------------------------------------------------------------------ *)

\* Regex::replace_all of the pattern (?i)\ba\b by b, from position i of s on
\* (a in lowercase).
RECURSIVE ReplaceWordFrom(_, _, _, _)
ReplaceWordFrom(s, i, a, b) ==
  IF i > Len(s) THEN <<>>
  ELSE IF At(ToLower(s), i, a) /\ Boundary(s, i) /\ Boundary(s, i + Len(a))
       THEN b \o ReplaceWordFrom(s, i + Len(a), a, b)
       ELSE <<s[i]>> \o ReplaceWordFrom(s, i + 1, a, b)

ReplaceWord(s, a, b) == ReplaceWordFrom(s, 1, a, b)

\* The phrases of normalize_condition and what they are replaced by, in the
\* order of the code.
ConditionPhrases ==
  << <<<<"g", "r", "e", "a", "t", "e", "r", " ", "t", "h", "a", "n", " ", "o", "r", " ", "e", "q", "u", "a", "l", " ", "t", "o">>, <<">", "=">>>>,
     <<<<"l", "e", "s", "s", " ", "t", "h", "a", "n", " ", "o", "r", " ", "e", "q", "u", "a", "l", " ", "t", "o">>, <<"<", "=">>>>,
     <<<<"g", "r", "e", "a", "t", "e", "r", " ", "t", "h", "a", "n">>, <<">">>>>,
     <<<<"l", "e", "s", "s", " ", "t", "h", "a", "n">>, <<"<">>>>,
     <<<<"i", "s", " ", "n", "o", "t">>, <<"!", "=">>>>,
     <<<<"n", "o", "t", " ", "e", "q", "u", "a", "l", " ", "t", "o">>, <<"!", "=">>>>,
     <<<<"e", "q", "u", "a", "l", "s">>, <<"=", "=">>>>,
     <<<<"e", "q", "u", "a", "l", " ", "t", "o">>, <<"=", "=">>>>,
     <<<<"i", "s">>, <<"=", "=">>>> >>

RECURSIVE ReplacePhrases(_, _)
ReplacePhrases(c, n) ==
  IF n > Len(ConditionPhrases) THEN c
  ELSE ReplacePhrases(ReplaceWord(c, ConditionPhrases[n][1], ConditionPhrases[n][2]), n + 1)

\* The operator of (==|!=|>=|<=|>|<) at position i of s, the empty text when
\* there is none.
OpAt(s, i) ==
  IF AtAny(s, i, {<<"=", "=">>, <<"!", "=">>, <<">", "=">>, <<"<", "=">>}) THEN SubSeq(s, i, i + 1)
  ELSE IF AtAny(s, i, {<<">">>, <<"<">>}) THEN <<s[i]>>
  ELSE <<>>

\* The pattern (==|!=|>=|<=|>|<)\s*([A-Za-z_][\w]*) at position i of s: the
\* position of the identifier, 0 when there is no match.
RhsAt(s, i) ==
  IF OpAt(s, i) # <<>>
     /\ SpacesEnd(s, i + Len(OpAt(s, i))) <= Len(s)
     /\ IsIdentStart(s[SpacesEnd(s, i + Len(OpAt(s, i)))])
  THEN SpacesEnd(s, i + Len(OpAt(s, i)))
  ELSE 0

\* The words that are written without quotes on the right of a comparison.
IsBareValue(w) == IsF64(w) \/ ToLower(w) \in {sTrue, sFalse, ToLower(sNone)}

QuoteRhs(op, rhs) ==
  IF IsBareValue(rhs) THEN op \o <<" ">> \o rhs
  ELSE op \o <<" ", "\"">> \o rhs \o <<"\"">>

\* replace_all of that pattern, from position i of s on.
RECURSIVE QuoteRhsFrom(_, _)
QuoteRhsFrom(s, i) ==
  IF i > Len(s) THEN <<>>
  ELSE IF RhsAt(s, i) > 0
       THEN QuoteRhs(OpAt(s, i), SubSeq(s, RhsAt(s, i), WordEnd(s, RhsAt(s, i)) - 1))
              \o QuoteRhsFrom(s, WordEnd(s, RhsAt(s, i)))
       ELSE <<s[i]>> \o QuoteRhsFrom(s, i + 1)

\* normalize_condition
normalize_condition(raw) ==
  Trim(TrimEndChars(QuoteRhsFrom(ReplacePhrases(Trim(raw), 1), 1), {","}))

SayVerbs == {<<"s", "a", "y">>, <<"p", "r", "i", "n", "t">>, <<"o", "u", "t", "p", "u", "t">>}

\* The verb of (?:say|print|output)\s+ at position k of s and a text behind
\* it: the position where that text starts, 0 when there is no match.
VerbAt(s, k) ==
  IF AtAny(ToLower(s), k, SayVerbs)
     /\ k + Len(WordAt(ToLower(s), k, SayVerbs)) <= Len(s)
     /\ IsSpace(s[k + Len(WordAt(ToLower(s), k, SayVerbs))])
     /\ SpacesEnd(s, k + Len(WordAt(ToLower(s), k, SayVerbs))) <= Len(s)
  THEN SpacesEnd(s, k + Len(WordAt(ToLower(s), k, SayVerbs)))
  ELSE 0

\* The position behind an optional comma or colon at position j of s.
PastPunct(s, j) == IF j <= Len(s) /\ s[j] \in {",", ":"} THEN j + 1 ELSE j
PastComma(s, j) == IF j <= Len(s) /\ s[j] = "," THEN j + 1 ELSE j

\* \s*(?:,|:)?\s*(?:say|print|output)\s+ at position g of s, and the same
\* without the punctuation: the position where the message starts, or 0.
SayAfter(s, g) == VerbAt(s, SpacesEnd(s, PastPunct(s, SpacesEnd(s, g))))
SayAfterBare(s, g) == VerbAt(s, SpacesEnd(s, g))

\* The text behind else\s*(?:say|print|output)?\s+ (the text of the else
\* branch), else standing in front of position e of t: the position where it
\* starts, or 0.
ElseTextAt(t, e) ==
  IF VerbAt(t, SpacesEnd(t, e)) > 0 THEN VerbAt(t, SpacesEnd(t, e))
  ELSE IF SpacesEnd(t, e) > e /\ SpacesEnd(t, e) <= Len(t) THEN SpacesEnd(t, e)
  ELSE 0

\* ,?\s*else at position g of t: the position behind else, or 0.
ElseAt(t, g) ==
  IF At(ToLower(t), SpacesEnd(t, PastComma(t, g)), <<"e", "l", "s", "e">>)
  THEN SpacesEnd(t, PastComma(t, g)) + 4
  ELSE 0

\* The else group of the first pattern of build_branch_dsl at position g.
ElseGroupAt(t, g) == IF ElseAt(t, g) > 0 THEN ElseTextAt(t, ElseAt(t, g)) ELSE 0

\* Where that group starts: behind the shortest head that lets it match; 0
\* when the head is the whole text.
ElseGroupPos(t) == Leftmost({g \in 2..Len(t) : ElseGroupAt(t, g) > 0})

\* ,?\s*elif\s+ at position i of s: the position behind the word elif, and
\* the position behind the match, or 0.
ElifWord(s, i) ==
  IF At(ToLower(s), SpacesEnd(s, PastComma(s, i)), <<"e", "l", "i", "f">>)
     /\ SpacesEnd(s, PastComma(s, i)) + 4 <= Len(s)
     /\ IsSpace(s[SpacesEnd(s, PastComma(s, i)) + 4])
  THEN SpacesEnd(s, PastComma(s, i)) + 4
  ELSE 0

ElifSepAt(s, i) == IF ElifWord(s, i) > 0 THEN SpacesEnd(s, ElifWord(s, i)) ELSE 0

\* Regex::split of s by that pattern.
ElifSepPos(s) == Leftmost({i \in 1..Len(s) : ElifSepAt(s, i) > 0})

RECURSIVE SplitElif(_)
SplitElif(s) ==
  IF ElifSepPos(s) = 0 THEN <<s>>
  ELSE <<SubSeq(s, 1, ElifSepPos(s) - 1)>> \o SplitElif(From(s, ElifSepAt(s, ElifSepPos(s))))

\* The parts of the head, trimmed, without the empty ones.
TidyPart(part) == TrimEndChars(Trim(part), {","})

Parts(head) == SelectSeq([i \in DOMAIN SplitElif(Trim(head)) |-> TidyPart(SplitElif(Trim(head))[i])],
                         LAMBDA part : part # <<>>)

\* ^(?P<cond>.+?)\s*(?:,|:)?\s*(?:say|print|output)\s+(?P<msg>.+?)\s*$ on a
\* part: where the shortest condition ends, 0 when the pattern does not match.
CondEnd(part) == Leftmost({g \in 2..Len(part) : SayAfter(part, g) > 0})

\* A branch: its condition and its message.
BranchOf(part, g) ==
  [cond |-> normalize_condition(SubSeq(part, 1, g - 1)),
   msg |-> sanitize_text(TrimEnd(From(part, SayAfter(part, g))))]

\* The lines of a branch: the header and the indented output.
\* A branch that hands its message to another macro invocation.
IndentedAgain(msg) == <<" ", " ", " ", " ", "m", "a", "c", "r", "o", " ", "f", "r", "o", "m", " ", "A", "I", ":", " ", "\"">> \o msg \o <<"\"">>

Indented(msg) == <<" ", " ", " ", " ", "n", "e", "u", "r", "o", " ", "\"">> \o msg \o <<"\"">>
IfLines(cond, msg) == <<<<"i", "f", " ">> \o cond \o <<":">>, Indented(msg)>>
ElifLines(cond, msg) == <<<<"e", "l", "i", "f", " ">> \o cond \o <<":">>, Indented(msg)>>
ElseLines(msg) == <<<<"e", "l", "s", "e", ":">>, Indented(msg)>>

RECURSIVE ElifChain(_, _)
ElifChain(parts, n) ==
  IF n > Len(parts) THEN <<>>
  ELSE ElifLines(BranchOf(parts[n], CondEnd(parts[n])).cond,
                 BranchOf(parts[n], CondEnd(parts[n])).msg) \o ElifChain(parts, n + 1)

BranchLines(parts) ==
  IfLines(BranchOf(parts[1], CondEnd(parts[1])).cond,
          BranchOf(parts[1], CondEnd(parts[1])).msg) \o ElifChain(parts, 2)

\* The first pattern: the head (in front of the else group) and the text of
\* the else branch; the branches are there when the head starts with if and
\* every part of it has a verb.
HeadIn(t, g) == IF g > 0 THEN Trim(SubSeq(t, 1, g - 1)) ELSE Trim(t)
ElseIn(t, g) == IF g > 0 THEN SomeText(sanitize_text(From(t, ElseGroupAt(t, g)))) ELSE NoText

\* ^if\s+ replaced by nothing.
DropIf(head) == From(head, SpacesEnd(head, 3))

StartsWithIf(s) == At(ToLower(TrimStart(s)), 1, <<"i", "f", " ">>)

Chained(head) ==
  /\ StartsWithIf(head)
  /\ Parts(DropIf(head)) # <<>>
  /\ \A n \in DOMAIN Parts(DropIf(head)) : CondEnd(Parts(DropIf(head))[n]) > 0

ChainLines(head, else_msg) ==
  BranchLines(Parts(DropIf(head)))
    \o (IF else_msg.some THEN ElseLines(sanitize_text(else_msg.v)) ELSE <<>>)

\* A lazy capture behind \s+, the whitespace being the positions lo to c0 - 1
\* of s, K(s, g) telling where the pattern goes on when the capture ends in
\* front of g (0: it does not): the whitespace is as long, and then the
\* capture as short, as a match allows.
Spans(s, lo, c0, K(_, _)) ==
  {a \in (lo + 1)..c0 : \E g \in (a + 1)..Len(s) : K(s, g) > 0}

SpanEnd(s, a, K(_, _)) == Min({g \in (a + 1)..Len(s) : K(s, g) > 0})

\* The capture: from, the position it starts at; to, the position behind it;
\* next, where the pattern goes on.
SpanAt(s, a, g, K(_, _)) == [from |-> a, to |-> g, next |-> K(s, g)]

Span(s, lo, c0, K(_, _)) ==
  SpanAt(s, Max(Spans(s, lo, c0, K)), SpanEnd(s, Max(Spans(s, lo, c0, K)), K), K)

\* The second pattern of build_branch_dsl, on the prompt s.
\* ,?\s*else\s*(?:say|print|output)?\s*(?P<e>.+) behind optional whitespace at
\* position p: the position where e starts, or 0.
VerbEnd(s, k) ==
  IF AtAny(ToLower(s), k, SayVerbs) /\ k + Len(WordAt(ToLower(s), k, SayVerbs)) <= Len(s)
  THEN SpacesEnd(s, k + Len(WordAt(ToLower(s), k, SayVerbs)))
  ELSE k

ElseTail(s, p) ==
  IF ElseAt(s, SpacesEnd(s, p)) > 0 /\ ElseAt(s, SpacesEnd(s, p)) <= Len(s)
  THEN VerbEnd(s, SpacesEnd(s, ElseAt(s, SpacesEnd(s, p))))
  ELSE 0

\* What may follow a message: the else group, or the end.
TailOK(s, p) == SpacesEnd(s, p) > Len(s) \/ ElseTail(s, p) > 0

\* Where the shortest message that starts at position m ends (the position
\* behind it), nothing but the tail following.
MessageEnd(s, m) == Min({p \in (m + 1)..(Len(s) + 1) : TailOK(s, p)})

\* The else branch behind a message that ends in front of position p.
ElseBehind(s, p) ==
  IF ElseTail(s, p) > 0 THEN ElseLines(sanitize_text(From(s, ElseTail(s, p)))) ELSE <<>>

\* The elif group behind optional whitespace at position p: there is one when
\* elif is followed by a condition and a verb.
HasElif(s, p) ==
  /\ ElifWord(s, SpacesEnd(s, p)) > 0
  /\ Spans(s, ElifWord(s, SpacesEnd(s, p)), ElifSepAt(s, SpacesEnd(s, p)), SayAfterBare) # {}

\* The lines of the elif group whose condition is the capture c2, and of what
\* follows it.
ElifBehind(s, c2) ==
  ElifLines(normalize_condition(SubSeq(s, c2.from, c2.to - 1)),
            sanitize_text(SubSeq(s, c2.next, MessageEnd(s, c2.next) - 1)))
    \o ElseBehind(s, MessageEnd(s, c2.next))

\* Where the first message, which starts at position m, ends: in front of the
\* first place where an elif group, the else group or the end follows.
FirstMessageEnd(s, m) ==
  Min({p \in (m + 1)..(Len(s) + 1) : HasElif(s, p) \/ TailOK(s, p)})

AfterFirst(s, p) ==
  IF HasElif(s, p)
  THEN ElifBehind(s, Span(s, ElifWord(s, SpacesEnd(s, p)), ElifSepAt(s, SpacesEnd(s, p)),
                          SayAfterBare))
  ELSE ElseBehind(s, p)

\* The lines for the condition c1 (a capture) of the second pattern.
VerbLines(s, c1) ==
  IfLines(normalize_condition(SubSeq(s, c1.from, c1.to - 1)),
          sanitize_text(SubSeq(s, c1.next, FirstMessageEnd(s, c1.next) - 1)))
    \o AfterFirst(s, FirstMessageEnd(s, c1.next))

\* ^if\s+ matches at the start of s.
IfSpace(s) == At(ToLower(s), 1, <<"i", "f", " ">>) 

HasVerbForm(s) == IfSpace(s) /\ Spans(s, 3, SpacesEnd(s, 3), SayAfter) # {}

\* The third pattern, ^if\s+(.+?)\s*(?:,|:)?\s+(.+?)\s*(?:else\s+(.+))?$
\* \s*(?:,|:)?\s+ at position g and a text behind it: the position where that
\* text starts, or 0.
PlainAfter(s, g) ==
  IF SpacesEnd(s, g) <= Len(s) /\ s[SpacesEnd(s, g)] \in {",", ":"}
     /\ SpacesEnd(s, g) < Len(s) /\ IsSpace(s[SpacesEnd(s, g) + 1])
     /\ SpacesEnd(s, SpacesEnd(s, g) + 1) <= Len(s)
  THEN SpacesEnd(s, SpacesEnd(s, g) + 1)
  ELSE IF SpacesEnd(s, g) > g /\ SpacesEnd(s, g) <= Len(s) THEN SpacesEnd(s, g)
  ELSE 0

\* \s*(?:else\s+(.+))?$ at position p: the position where the text of the else
\* branch starts, or 0.
PlainElse(s, p) ==
  IF At(ToLower(s), SpacesEnd(s, p), <<"e", "l", "s", "e", " ">>)
     /\ SpacesEnd(s, SpacesEnd(s, p) + 4) <= Len(s)
  THEN SpacesEnd(s, SpacesEnd(s, p) + 4)
  ELSE 0

PlainMessageEnd(s, m) ==
  Min({p \in (m + 1)..(Len(s) + 1) : SpacesEnd(s, p) > Len(s) \/ PlainElse(s, p) > 0})

PlainElseLines(s, p) ==
  IF PlainElse(s, p) > 0 THEN ElseLines(sanitize_text(From(s, PlainElse(s, p)))) ELSE <<>>

PlainLines(s, c1) ==
  IfLines(normalize_condition(SubSeq(s, c1.from, c1.to - 1)),
          sanitize_text(SubSeq(s, c1.next, PlainMessageEnd(s, c1.next) - 1)))
    \o PlainElseLines(s, PlainMessageEnd(s, c1.next))

HasPlainForm(s) == IfSpace(s) /\ Spans(s, 3, SpacesEnd(s, 3), PlainAfter) # {}

\* build_branch_dsl on the prompt s, unwrapped and with otherwise replaced by
\* else.
BranchFor(s) ==
  IF Trim(s) # <<>> /\ Chained(HeadIn(Trim(s), ElseGroupPos(Trim(s))))
  THEN ChainLines(HeadIn(Trim(s), ElseGroupPos(Trim(s))), ElseIn(Trim(s), ElseGroupPos(Trim(s))))
  ELSE IF HasVerbForm(s) THEN VerbLines(s, Span(s, 3, SpacesEnd(s, 3), SayAfter))
  ELSE IF HasPlainForm(s) THEN PlainLines(s, Span(s, 3, SpacesEnd(s, 3), PlainAfter))
  ELSE <<NeuroQuoted(Trim(s))>>

\* build_branch_dsl: the lines of the synthesized text.
build_branch_dsl(prompt) ==
  BranchFor(ReplaceWord(strip_wrapping_quotes(prompt), <<"o", "t", "h", "e", "r", "w", "i", "s", "e">>, <<"e", "l", "s", "e">>))

(* ------------------------------------------------------------------ *)
(* Macro synthesis: expressions and the print templates                *)
(* ------------------------------------------------------------------ *)

\* The character at position i of s; no character outside s.
Ch(s, i) == IF i >= 1 /\ i <= Len(s) THEN s[i] ELSE ""

Quotes == {"'", "\""}

\* The identifier [A-Za-z_][\w]* that starts at position k of s.
IdentAt(s, k) == SubSeq(s, k, WordEnd(s, k) - 1)

\* \s*\+\s*([A-Za-z_][\w]*) at position j of s: the position of the
\* identifier, 0 when there is no match.
PlusIdent(s, j) ==
  IF Ch(s, SpacesEnd(s, j)) = "+" /\ IsIdentStart(Ch(s, SpacesEnd(s, SpacesEnd(s, j) + 1)))
  THEN SpacesEnd(s, SpacesEnd(s, j) + 1)
  ELSE 0

\* ['"](.+?)['"]\s*\+\s*([A-Za-z_][\w]*) at position q of s: the position of
\* the quote that closes the shortest literal, 0 when there is no match.
LitEnd(s, q) ==
  IF Ch(s, q) \in Quotes
  THEN Leftmost({j \in (q + 2)..Len(s) : s[j] \in Quotes /\ PlusIdent(s, j + 1) > 0})
  ELSE 0

\* ^print\s+ on p: the position behind the match, 0 when there is none.
PrintSpace(p) ==
  IF At(ToLower(p), 1, <<"p", "r", "i", "n", "t">>) /\ IsSpace(Ch(p, 6)) THEN SpacesEnd(p, 6) ELSE 0

TmpLines(rhs) == <<<<"s", "e", "t", " ", "t", "m", "p", "P", "r", "i", "n", "t", " ", "=", " ">> \o rhs, <<"n", "e", "u", "r", "o", " ", "t", "m", "p", "P", "r", "i", "n", "t">>>>

\* The first form, print 'literal' + variable, the literal starting behind
\* position q and ending in front of position j.
LitVarLines(p, q, j) ==
  TmpLines(<<"\"">> \o ReplaceChar(SubSeq(p, q + 1, j - 1), "'", "\"") \o <<"\"", " ", "+", " ">>
             \o IdentAt(p, PlusIdent(p, j + 1)))

\* \s*\+\s*['"]\s*['"]\s*\+\s*([A-Za-z_][\w]*) at position w of p: the
\* position of the identifier, 0 when there is no match.
SecondQuote(p, k) == IF Ch(p, k) \in Quotes THEN PlusIdent(p, k + 1) ELSE 0
FirstQuote(p, k) == IF Ch(p, k) \in Quotes THEN SecondQuote(p, SpacesEnd(p, k + 1)) ELSE 0
PlusBlank(p, w) ==
  IF Ch(p, SpacesEnd(p, w)) = "+" THEN FirstQuote(p, SpacesEnd(p, SpacesEnd(p, w) + 1)) ELSE 0

\* The second form, print variable + ' ' + variable, the first variable at
\* position q.
VarLitVar(p, q) == IF IsIdentStart(Ch(p, q)) THEN PlusBlank(p, WordEnd(p, q)) ELSE 0

VarLitVarLines(p, q) ==
  TmpLines(IdentAt(p, q) \o <<" ", "+", " ", "\"", " ", "\"", " ", "+", " ">> \o IdentAt(p, VarLitVar(p, q)))

\* build_print_concat_dsl on the unwrapped prompt p, q the position behind
\* print: the lines, none when neither form matches.
PrintConcat(p, q) ==
  IF q = 0 THEN <<>>
  ELSE IF LitEnd(p, q) > 0 THEN LitVarLines(p, q, LitEnd(p, q))
  ELSE IF VarLitVar(p, q) > 0 THEN VarLitVarLines(p, q)
  ELSE <<>>

\* build_print_concat_dsl: the lines of the text, <<>> for None.
build_print_concat_dsl(prompt) ==
  PrintConcat(strip_wrapping_quotes(prompt), PrintSpace(strip_wrapping_quotes(prompt)))

\* format!("\"{val}\"")
InQuotes(val) == <<"\"">> \o val \o <<"\"">>

\* parse_rhs, for the cleaned value val.
RhsOf(val, had_quote) ==
  IF val = <<>> THEN InQuotes(<<>>)
  ELSE IF IsBareValue(val) THEN val
  ELSE IF \A i \in DOMAIN val : IsWordChar(val[i]) THEN (IF had_quote THEN InQuotes(val) ELSE val)
  ELSE InQuotes(val)

\* parse_rhs
parse_rhs(raw) ==
  RhsOf(Without(strip_wrapping_quotes(sanitize_text(raw)), {"'"}),
        \E i \in DOMAIN raw : raw[i] \in Quotes)

\* \s+and\s+[A-Za-z_][\w]*\s*= at position i of low.
AssignBehind(low, k) == IsIdentStart(Ch(low, k)) /\ Ch(low, SpacesEnd(low, WordEnd(low, k))) = "="

AndWord(low, k) ==
  At(low, k, <<"a", "n", "d">>) /\ IsSpace(Ch(low, k + 3)) /\ AssignBehind(low, SpacesEnd(low, k + 3))

AndAssignAt(low, i) == IsSpace(Ch(low, i)) /\ AndWord(low, SpacesEnd(low, i))

AndAssignPos(low) == Leftmost({i \in 1..Len(low) : AndAssignAt(low, i)})

\* e[..idx].trim() for the position pos = idx + 1 of a match, e itself when
\* there is no match.
CutAt(e, pos) == IF pos > 0 /\ pos - 1 <= Len(e) THEN Trim(SubSeq(e, 1, pos - 1)) ELSE e

\* clean_expr on e, the trimmed expression without its trailing commas.
\* The position of ", then" is read from the text as it was before the first
\* cut.
CleanOf(e) ==
  ReplaceChar(CutAt(CutAt(e, AndAssignPos(ToLower(e))), Find(ToLower(e), <<",", " ", "t", "h", "e", "n">>)), "'", "\"")

\* The second cut is out of range: the slice e[..idx] panics.
CleanPanicsOf(e) == Find(ToLower(e), <<",", " ", "t", "h", "e", "n">>) - 1 > Len(CutAt(e, AndAssignPos(ToLower(e))))

\* clean_expr; clean_panics tells that the call panics.
clean_expr(expr) == CleanOf(TrimEndChars(Trim(expr), {","}))
clean_panics(expr) == CleanPanicsOf(TrimEndChars(Trim(expr), {","}))

\* \s*\*\*\s*(\d+)\s*$ at position g of e: the position of the digits, 0 when
\* there is no match.
DigitsToEnd(e, k) ==
  IF IsDigit(Ch(e, k)) /\ SpacesEnd(e, DigitsEnd(e, k)) > Len(e) THEN k ELSE 0

PowAt(e, g) ==
  IF At(e, SpacesEnd(e, g), <<"*", "*">>) THEN DigitsToEnd(e, SpacesEnd(e, SpacesEnd(e, g) + 2)) ELSE 0

\* Where the shortest base ends (the position behind it), 0 when the pattern
\* does not match.
BaseEnd(e) == Leftmost({g \in 2..Len(e) : PowAt(e, g) > 0})

\* The exponent: parse::<usize>().unwrap_or(1).clamp(0, 8)
MaxPower == 8

ExpOf(d) ==
  IF ~FitsUsize(d) THEN 1
  ELSE IF Len(Canonical(d)) > 1 THEN MaxPower
  ELSE Min({MaxPower, DigitsVal(Canonical(d))})

\* vec![format!("({base})"); exp].join(" * ")
RECURSIVE Repeated(_, _)
Repeated(base, n) ==
  IF n = 1 THEN <<"(">> \o base \o <<")">>
  ELSE <<"(">> \o base \o <<")", " ", "*", " ">> \o Repeated(base, n - 1)

PowerOf(base, exp) ==
  IF exp = 0 THEN <<"1">> ELSE IF exp = 1 THEN base ELSE Repeated(base, exp)

HasOperator(e) == \E i \in DOMAIN e : e[i] \in {"+", "-", "*", "/", "%"}

\* normalize_expr on the cleaned expression e.
NormalOf(e) ==
  IF Contains(e, <<"*", "*">>) /\ BaseEnd(e) > 0
  THEN PowerOf(Trim(SubSeq(e, 1, BaseEnd(e) - 1)),
               ExpOf(DigitsFrom(e, PowAt(e, BaseEnd(e)))))
  ELSE IF Len(SelectSeq(e, LAMBDA c : c = "\"")) > 1
       THEN InQuotes(Trim(Without(e, {"\""})))
  ELSE IF HasOperator(e) THEN e
  ELSE parse_rhs(e)

\* normalize_expr
normalize_expr(expr) == NormalOf(clean_expr(expr))

(* ------------------------------------------------------------------ *)
(* Macro synthesis: parse_var_expr and find_print_tail                 *)
(* ------------------------------------------------------------------ *)

\* The result of parse_var_expr: the variable, the expression and whether to
\* print; panic tells that the call panicked (in clean_expr).
NoVarExpr == [some |-> FALSE, var |-> <<>>, expr |-> <<>>, print |-> FALSE, panic |-> FALSE]
VarExpr(var, expr, print, panic) ==
  [some |-> TRUE, var |-> var, expr |-> expr, print |-> print, panic |-> panic]

\* One of the tokens toks at position t of p: the position behind it, or 0.
TokEnd(p, t, toks) ==
  IF AtAny(ToLower(p), t, toks) THEN t + Len(WordAt(ToLower(p), t, toks)) ELSE 0

\* set\s+([A-Za-z_][\w]*)\s+(?:to|=)\s+(.+) at position i of p: the position
\* where the expression starts, 0 when there is no match.
SetToExpr(p, t) ==
  IF t > 0 /\ IsSpace(Ch(p, t)) /\ SpacesEnd(p, t) <= Len(p) THEN SpacesEnd(p, t) ELSE 0

SetToTok(p, w) ==
  IF IsSpace(Ch(p, w)) THEN SetToExpr(p, TokEnd(p, SpacesEnd(p, w), {<<"t", "o">>, <<"=">>})) ELSE 0

SetToVar(p, k) == IF IsIdentStart(Ch(p, k)) THEN SetToTok(p, WordEnd(p, k)) ELSE 0

SetToAt(p, i) ==
  IF At(ToLower(p), i, <<"s", "e", "t">>) /\ IsSpace(Ch(p, i + 3)) THEN SetToVar(p, SpacesEnd(p, i + 3)) ELSE 0

SetToPos(p) == Leftmost({i \in 1..Len(p) : SetToAt(p, i) > 0})

\* ([A-Za-z_][\w]*)\s*(?:tok)?\s*(.+) at position k of p, tok one of toks.
\* The identifier is the whole word when a text follows it; at the end of p
\* it gives its last character to the expression.
LooseAt(p, k) ==
  /\ IsIdentStart(Ch(p, k))
  /\ (SpacesEnd(p, WordEnd(p, k)) <= Len(p) \/ WordEnd(p, k) - k >= 2)

LooseVarEnd(p, k) ==
  IF SpacesEnd(p, WordEnd(p, k)) <= Len(p) THEN WordEnd(p, k) ELSE WordEnd(p, k) - 1

LooseBehind(p, s1, t) == IF t > 0 /\ SpacesEnd(p, t) <= Len(p) THEN SpacesEnd(p, t) ELSE s1

LooseExpr(p, k, toks) ==
  IF SpacesEnd(p, WordEnd(p, k)) > Len(p) THEN WordEnd(p, k) - 1
  ELSE LooseBehind(p, SpacesEnd(p, WordEnd(p, k)), TokEnd(p, SpacesEnd(p, WordEnd(p, k)), toks))

\* create\s+variable\s+ at position i of p: the position behind it, or 0.
VariableWord(p, k) ==
  IF At(ToLower(p), k, <<"v", "a", "r", "i", "a", "b", "l", "e">>) /\ IsSpace(Ch(p, k + 8)) THEN SpacesEnd(p, k + 8) ELSE 0

CreateAt(p, i) ==
  IF At(ToLower(p), i, <<"c", "r", "e", "a", "t", "e">>) /\ IsSpace(Ch(p, i + 6)) THEN VariableWord(p, SpacesEnd(p, i + 6)) ELSE 0

CreatePos(p) == Leftmost({i \in 1..Len(p) : CreateAt(p, i) > 0 /\ LooseAt(p, CreateAt(p, i))})

\* (?:set|create|store)\s+ at position i of p: the position behind it, or 0.
AssignWords == {<<"s", "e", "t">>, <<"c", "r", "e", "a", "t", "e">>, <<"s", "t", "o", "r", "e">>}

AssignWordAt(p, i) ==
  IF TokEnd(p, i, AssignWords) > 0 /\ IsSpace(Ch(p, TokEnd(p, i, AssignWords)))
  THEN SpacesEnd(p, TokEnd(p, i, AssignWords))
  ELSE 0

AssignWordPos(p) == Leftmost({i \in 1..Len(p) : AssignWordAt(p, i) > 0 /\ LooseAt(p, AssignWordAt(p, i))})

\* \s+in\s+([A-Za-z_][\w]*) at position g of p: the position of the
\* identifier, or 0.
InWord(p, k) ==
  IF At(ToLower(p), k, <<"i", "n">>) /\ IsSpace(Ch(p, k + 2)) /\ IsIdentStart(Ch(p, SpacesEnd(p, k + 2)))
  THEN SpacesEnd(p, k + 2)
  ELSE 0

InIdent(p, g) == IF IsSpace(Ch(p, g)) THEN InWord(p, SpacesEnd(p, g)) ELSE 0

\* store\s+(.+?)\s+in\s+([A-Za-z_][\w]*) at position i of p.
StoreInAt(p, i) ==
  /\ At(ToLower(p), i, <<"s", "t", "o", "r", "e">>)
  /\ IsSpace(Ch(p, i + 5))
  /\ Spans(p, i + 5, SpacesEnd(p, i + 5), InIdent) # {}

StoreInPos(p) == Leftmost({i \in 1..Len(p) : StoreInAt(p, i)})

\* The separators in front of a print request, in the order of the code.
PrintSeps ==
  <<<<" ", "a", "n", "d", " ", "p", "r", "i", "n", "t">>, <<" ", "t", "h", "e", "n", " ", "p", "r", "i", "n", "t">>, <<" ", "a", "n", "d", " ", "o", "u", "t", "p", "u", "t">>, <<" ", "t", "h", "e", "n", " ", "o", "u", "t", "p", "u", "t">>, <<" ", "a", "n", "d", " ", "e", "c", "h", "o">>, <<" ", "t", "h", "e", "n", " ", "e", "c", "h", "o">>>>

\* The expression cut at the first separator that occurs in it.
RECURSIVE SepCut(_, _)
SepCut(expr, n) ==
  IF n > Len(PrintSeps) THEN [cut |-> FALSE, expr |-> expr]
  ELSE IF Find(ToLower(expr), PrintSeps[n]) > 0
       THEN [cut |-> TRUE, expr |-> Trim(SubSeq(expr, 1, Find(ToLower(expr), PrintSeps[n]) - 1))]
       ELSE SepCut(expr, n + 1)

MentionsOutput(lp) ==
  \/ Contains(lp, <<" ", "p", "r", "i", "n", "t">>)
  \/ Contains(lp, <<" ", "o", "u", "t", "p", "u", "t">>)
  \/ Contains(lp, <<" ", "s", "h", "o", "w">>)
  \/ Contains(lp, <<" ", "e", "c", "h", "o">>)

OrZero(expr) == IF expr = <<>> THEN <<"0">> ELSE expr

\* The first two patterns: the variable and the capture cut at a separator.
Assigned(var, c, lp) ==
  VarExpr(var, OrZero(clean_expr(c.expr)), c.cut \/ MentionsOutput(lp), clean_panics(c.expr))

\* The third pattern, c the capture.
Stored(p, c) ==
  VarExpr(IdentAt(p, c.next),
          clean_expr(strip_wrapping_quotes(Trim(SubSeq(p, c.from, c.to - 1)))),
          TRUE,
          clean_panics(strip_wrapping_quotes(Trim(SubSeq(p, c.from, c.to - 1)))))

\* The fourth pattern: "x into y" keeps x when y is not empty.
IntoHead(expr, pos) ==
  IF pos > 0 /\ Trim(From(expr, pos + 6)) # <<>> THEN Trim(SubSeq(expr, 1, pos - 1)) ELSE expr

Loosely(var, c, lp) ==
  VarExpr(var,
          IntoHead(clean_expr(OrZero(c.expr)), Find(ToLower(clean_expr(OrZero(c.expr))), <<" ", "i", "n", "t", "o", " ">>)),
          c.cut \/ MentionsOutput(lp),
          clean_panics(OrZero(c.expr)))

\* parse_var_expr on the trimmed prompt p.
VarExprOf(p) ==
  IF SetToPos(p) > 0
  THEN Assigned(IdentAt(p, SpacesEnd(p, SetToPos(p) + 3)),
                SepCut(Trim(From(p, SetToAt(p, SetToPos(p)))), 1), ToLower(p))
  ELSE IF CreatePos(p) > 0
  THEN Assigned(SubSeq(p, CreateAt(p, CreatePos(p)), LooseVarEnd(p, CreateAt(p, CreatePos(p))) - 1),
                SepCut(Trim(From(p, LooseExpr(p, CreateAt(p, CreatePos(p)), {<<"=">>}))), 1), ToLower(p))
  ELSE IF StoreInPos(p) > 0
  THEN Stored(p, Span(p, StoreInPos(p) + 5, SpacesEnd(p, StoreInPos(p) + 5), InIdent))
  ELSE IF AssignWordPos(p) > 0
  THEN Loosely(SubSeq(p, AssignWordAt(p, AssignWordPos(p)), LooseVarEnd(p, AssignWordAt(p, AssignWordPos(p))) - 1),
               SepCut(Trim(From(p, LooseExpr(p, AssignWordAt(p, AssignWordPos(p)), {<<"=">>, <<"t", "o">>}))), 1),
               ToLower(p))
  ELSE NoVarExpr

\* parse_var_expr
parse_var_expr(prompt) == VarExprOf(Trim(prompt))

\* find_print_tail: where the text behind the last print, echo or output
\* starts, 0 when there is none of them.
PrintTailStart(low) ==
  IF RFind(low, <<"p", "r", "i", "n", "t", " ">>) > 0 THEN RFind(low, <<"p", "r", "i", "n", "t", " ">>) + 6
  ELSE IF RFind(low, <<"e", "c", "h", "o", " ">>) > 0 THEN RFind(low, <<"e", "c", "h", "o", " ">>) + 5
  ELSE IF RFind(low, <<"o", "u", "t", "p", "u", "t", " ">>) > 0 THEN RFind(low, <<"o", "u", "t", "p", "u", "t", " ">>) + 7
  ELSE 0

\* The tail 'literal' + variable, the literal ending in front of position j.
LitTail(raw, j) ==
  InQuotes(SubSeq(raw, 2, j - 1)) \o <<" ", "+", " ", "\"">>
    \o (IF raw[j - 1] = " " THEN <<>> ELSE <<" ">>) \o <<"\"", " ", "+", " ">>
    \o IdentAt(raw, PlusIdent(raw, j + 1))

\* The texts in front of and behind the variable, as quoted segments.
PreSeg(pre) ==
  IF Trim(pre) = <<>> THEN <<>>
  ELSE InQuotes(strip_wrapping_quotes(Trim(pre))
                  \o (IF EndsWith(strip_wrapping_quotes(Trim(pre)), <<" ">>) THEN <<>> ELSE <<" ">>))
         \o <<" ", "+", " ">>

PostSeg(post) ==
  IF Trim(post) = <<>> THEN <<>>
  ELSE <<" ", "+", " ">>
         \o InQuotes((IF StartsWith(strip_wrapping_quotes(Trim(post)), <<" ">>) THEN <<>> ELSE <<" ">>)
                       \o strip_wrapping_quotes(Trim(post)))

AroundVar(raw, var, pos) ==
  PreSeg(TrimEndChars(SubSeq(raw, 1, pos - 1), {","})) \o var \o PostSeg(From(raw, pos + Len(var)))

\* find_print_tail for the text raw behind the verb.
PrintTailOf(raw, var) ==
  IF Contains(raw, <<"+">>)
  THEN (IF LitEnd(raw, 1) > 0 THEN LitTail(raw, LitEnd(raw, 1)) ELSE ReplaceChar(raw, "'", "\""))
  ELSE IF ToLower(raw) = <<"i", "t">> THEN InQuotes(var \o <<"=">>) \o <<" ", "+", " ">> \o var
  ELSE IF Contains(raw, var) THEN AroundVar(raw, var, Find(raw, var))
  ELSE normalize_expr(raw)

PrintTailPanics(raw, var) ==
  ~Contains(raw, <<"+">>) /\ ToLower(raw) # <<"i", "t">> /\ ~Contains(raw, var) /\ clean_panics(raw)

\* find_print_tail(prompt, var).unwrap_or(var)
find_print_tail(prompt, var) ==
  IF PrintTailStart(ToLower(prompt)) = 0 THEN NoText
  ELSE SomeText(PrintTailOf(Trim(From(prompt, PrintTailStart(ToLower(prompt)))), var))

print_tail_panics(prompt, var) ==
  /\ PrintTailStart(ToLower(prompt)) > 0
  /\ PrintTailPanics(Trim(From(prompt, PrintTailStart(ToLower(prompt)))), var)

(* ------------------------------------------------------------------ *)
(* Macro synthesis: the DocPrint and RoleFlag templates                *)
(* ------------------------------------------------------------------ *)

\* The word w and whitespace behind it at position k of s: the position
\* behind the whitespace, 0 when there is no match.
WordSpace(s, k, w) ==
  IF k > 0 /\ At(ToLower(s), k, w) /\ IsSpace(Ch(s, k + Len(w))) THEN SpacesEnd(s, k + Len(w)) ELSE 0

\* Whitespace and the word w behind it at position g of s: the position
\* behind the word, 0 when there is no match.
SpaceWord(s, g, w) ==
  IF g > 0 /\ IsSpace(Ch(s, g)) /\ At(ToLower(s), SpacesEnd(s, g), w) THEN SpacesEnd(s, g) + Len(w) ELSE 0

\* mentions_print
mentions_print(prompt) ==
  \/ Contains(ToLower(prompt), <<"p", "r", "i", "n", "t">>)
  \/ Contains(ToLower(prompt), <<"s", "h", "o", "w">>)
  \/ Contains(ToLower(prompt), <<"o", "u", "t", "p", "u", "t">>)
  \/ Contains(ToLower(prompt), <<"e", "c", "h", "o">>)
  \/ Contains(ToLower(prompt), <<"s", "a", "y">>)

\* The phrases that make an instruction a comment instruction.
CommentPhrases ==
  {<<"w", "r", "i", "t", "e", " ", "a", " ", "c", "o", "m", "m", "e", "n", "t">>, <<"a", "d", "d", " ", "c", "o", "m", "m", "e", "n", "t">>, <<"i", "n", "s", "e", "r", "t", " ", "c", "o", "m", "m", "e", "n", "t">>, <<"c", "o", "m", "m", "e", "n", "t", " ", "t", "h", "a", "t", " ", "s", "a", "y", "s">>, <<"c", "o", "m", "m", "e", "n", "t", " ", "s", "a", "y", "s">>,
   <<"u", "s", "i", "n", "g", " ", "/", "/">>, <<"u", "s", "i", "n", "g", " ", "#">>}

IsCommentInstruction(plow) == \E w \in CommentPhrases : Contains(plow, w)

HasAssignment(plow) ==
  Contains(plow, <<"s", "e", "t", " ">>) \/ Contains(plow, <<"c", "r", "e", "a", "t", "e", " ">>) \/ Contains(plow, <<"s", "t", "o", "r", "e", " ">>)

\* The position behind the run of ., ! and ? that starts at position k of s.
RECURSIVE StopsEnd(_, _)
StopsEnd(s, k) == IF Ch(s, k) \in {".", "!", "?"} THEN StopsEnd(s, k + 1) ELSE k

\* \s+with\s+a\s+comma\s*[.!?]*\s*$ at position h of s.
CommaEnd(s, k) ==
  IF At(ToLower(s), k, <<"c", "o", "m", "m", "a">>) /\ SpacesEnd(s, StopsEnd(s, SpacesEnd(s, k + 5))) > Len(s)
  THEN k
  ELSE 0

WithComma(s, h) ==
  IF WordSpace(s, WordSpace(s, SpaceWord(s, h, <<"w", "i", "t", "h">>) - 4, <<"w", "i", "t", "h">>), <<"a">>) > 0
  THEN CommaEnd(s, WordSpace(s, WordSpace(s, SpaceWord(s, h, <<"w", "i", "t", "h">>) - 4, <<"w", "i", "t", "h">>), <<"a">>))
  ELSE 0

\* \s+and\s+(.+?) and that tail at position g of s: the position behind and.
AndSecond(s, g) ==
  IF SpaceWord(s, g, <<"a", "n", "d">>) > 0
     /\ IsSpace(Ch(s, SpaceWord(s, g, <<"a", "n", "d">>)))
     /\ Spans(s, SpaceWord(s, g, <<"a", "n", "d">>), SpacesEnd(s, SpaceWord(s, g, <<"a", "n", "d">>)), WithComma) # {}
  THEN SpaceWord(s, g, <<"a", "n", "d">>)
  ELSE 0

\* ^format\s+(.+?)\s+and\s+(.+?)\s+with\s+a\s+comma\s*[.!?]*\s*$
FormatMatches(p) ==
  /\ At(ToLower(p), 1, <<"f", "o", "r", "m", "a", "t">>)
  /\ IsSpace(Ch(p, 7))
  /\ Spans(p, 7, SpacesEnd(p, 7), AndSecond) # {}

\* The two captures, a the first one.
FormatSecond(p, a) == Span(p, a.next, SpacesEnd(p, a.next), WithComma)

FormatLines(first, second) ==
  IF first # <<>> /\ second # <<>> THEN <<NeuroQuoted(first \o <<",", " ">> \o second)>> ELSE <<>>

FormatOf(p, a, b) ==
  FormatLines(sanitize_text(SubSeq(p, a.from, a.to - 1)), sanitize_text(SubSeq(p, b.from, b.to - 1)))

\* Step 1 of build_doc_print_dsl: the line, none when the step does not apply.
FormatStep(p) ==
  IF StartsWith(TrimStart(ToLower(p)), <<"f", "o", "r", "m", "a", "t", " ">>) /\ Contains(ToLower(p), <<"c", "o", "m", "m", "a">>) /\ FormatMatches(p)
  THEN FormatOf(p, Span(p, 7, SpacesEnd(p, 7), AndSecond),
                FormatSecond(p, Span(p, 7, SpacesEnd(p, 7), AndSecond)))
  ELSE <<>>

\* ^say\s+the\s+number\s+(\d+)\b: the position of the digits, or 0.
SayNumber(p) ==
  IF IsDigit(Ch(p, WordSpace(p, WordSpace(p, WordSpace(p, 1, <<"s", "a", "y">>), <<"t", "h", "e">>), <<"n", "u", "m", "b", "e", "r">>)))
     /\ ~WordChar(p, DigitsEnd(p, WordSpace(p, WordSpace(p, WordSpace(p, 1, <<"s", "a", "y">>), <<"t", "h", "e">>), <<"n", "u", "m", "b", "e", "r">>)))
  THEN WordSpace(p, WordSpace(p, WordSpace(p, 1, <<"s", "a", "y">>), <<"t", "h", "e">>), <<"n", "u", "m", "b", "e", "r">>)
  ELSE 0

\* \bvalue\s+of\s+([A-Za-z_][\w]*)\b at position i: the position of the
\* identifier, or 0.
ValueOfAt(p, i) ==
  IF Boundary(p, i) /\ IsIdentStart(Ch(p, WordSpace(p, WordSpace(p, i, <<"v", "a", "l", "u", "e">>), <<"o", "f">>)))
  THEN WordSpace(p, WordSpace(p, i, <<"v", "a", "l", "u", "e">>), <<"o", "f">>)
  ELSE 0

\* \bthe\s+([A-Za-z_][\w]*)\s+value\b at position i.
TheValueAt(p, i) ==
  IF Boundary(p, i) /\ IsIdentStart(Ch(p, WordSpace(p, i, <<"t", "h", "e">>)))
     /\ SpaceWord(p, WordEnd(p, WordSpace(p, i, <<"t", "h", "e">>)), <<"v", "a", "l", "u", "e">>) > 0
     /\ ~WordChar(p, SpaceWord(p, WordEnd(p, WordSpace(p, i, <<"t", "h", "e">>)), <<"v", "a", "l", "u", "e">>))
  THEN WordSpace(p, i, <<"t", "h", "e">>)
  ELSE 0

\* ^(?:display|show)\s+([A-Za-z_][\w]*)\s*$
DisplayWord(p, k) ==
  IF k > 0 /\ IsIdentStart(Ch(p, k)) /\ SpacesEnd(p, WordEnd(p, k)) > Len(p) THEN k ELSE 0

DisplayAt(p) ==
  IF WordSpace(p, 1, <<"d", "i", "s", "p", "l", "a", "y">>) > 0 THEN DisplayWord(p, WordSpace(p, 1, <<"d", "i", "s", "p", "l", "a", "y">>))
  ELSE DisplayWord(p, WordSpace(p, 1, <<"s", "h", "o", "w">>))

\* Steps 2 and 3: the position of what is to be printed, 0 when no step
\* applies (the number is printed in quotes).
ValueOfPos(p) == Leftmost({i \in 1..Len(p) : ValueOfAt(p, i) > 0})
TheValuePos(p) == Leftmost({i \in 1..Len(p) : TheValueAt(p, i) > 0})

NeuroBare(arg) == <<"n", "e", "u", "r", "o", " ">> \o arg

ValueStep(p) ==
  IF SayNumber(p) > 0 THEN <<NeuroQuoted(DigitsFrom(p, SayNumber(p)))>>
  ELSE IF ValueOfPos(p) > 0 THEN <<NeuroBare(IdentAt(p, ValueOfAt(p, ValueOfPos(p))))>>
  ELSE IF TheValuePos(p) > 0 THEN <<NeuroBare(IdentAt(p, TheValueAt(p, TheValuePos(p))))>>
  ELSE IF DisplayAt(p) > 0 THEN <<NeuroBare(IdentAt(p, DisplayAt(p)))>>
  ELSE <<>>

\* \bcomment\b\s+(?:that\s+says\s+|says\s+)?(.+) at position i of p: the
\* position where the capture starts, or 0.  (The pattern with "write a
\* comment" that the code tries next matches only where this one does.)
SaysEnd(p, c) ==
  IF WordSpace(p, WordSpace(p, c, <<"t", "h", "a", "t">>), <<"s", "a", "y", "s">>) > 0
     /\ WordSpace(p, WordSpace(p, c, <<"t", "h", "a", "t">>), <<"s", "a", "y", "s">>) <= Len(p)
  THEN WordSpace(p, WordSpace(p, c, <<"t", "h", "a", "t">>), <<"s", "a", "y", "s">>)
  ELSE IF WordSpace(p, c, <<"s", "a", "y", "s">>) > 0 /\ WordSpace(p, c, <<"s", "a", "y", "s">>) <= Len(p)
  THEN WordSpace(p, c, <<"s", "a", "y", "s">>)
  ELSE c

CommentAt(p, i) ==
  IF Boundary(p, i) /\ WordSpace(p, i, <<"c", "o", "m", "m", "e", "n", "t">>) > 0 /\ WordSpace(p, i, <<"c", "o", "m", "m", "e", "n", "t">>) <= Len(p)
  THEN SaysEnd(p, WordSpace(p, i, <<"c", "o", "m", "m", "e", "n", "t">>))
  ELSE 0

CommentPos(p) == Leftmost({i \in 1..Len(p) : CommentAt(p, i) > 0})

\* The text of the comment: the first quoted text, or the capture.
CommentRaw(p) ==
  IF first_quoted(p).some THEN first_quoted(p)
  ELSE IF CommentPos(p) > 0 THEN SomeText(From(p, CommentAt(p, CommentPos(p))))
  ELSE NoText

\* (?:using\s+//|using\s+#).*$ replaced by nothing.
UsingAt(msg, i) ==
  \/ At(msg, WordSpace(msg, i, <<"u", "s", "i", "n", "g">>), <<"/", "/">>)
  \/ At(msg, WordSpace(msg, i, <<"u", "s", "i", "n", "g">>), <<"#">>)

UsingPos(msg) == Leftmost({i \in 1..Len(msg) : UsingAt(msg, i)})

DropUsing(msg) == IF UsingPos(msg) > 0 THEN Trim(SubSeq(msg, 1, UsingPos(msg) - 1)) ELSE Trim(msg)

\* str::strip_prefix and trim, for the two comment markers.
DropPrefix(msg, mark) == IF StartsWith(msg, mark) THEN Trim(From(msg, Len(mark) + 1)) ELSE msg

CommentText(raw) == DropPrefix(DropPrefix(DropUsing(strip_wrapping_quotes(raw)), <<"/", "/">>), <<"#">>)

CommentOf(c) ==
  IF c.some /\ CommentText(c.v) # <<>> THEN <<<<"/", "/", " ">> \o CommentText(c.v)>> ELSE <<>>

\* The comment line of step 4, and the fixed comment.
comment_line(p) ==
  IF IsCommentInstruction(ToLower(p)) /\ CommentOf(CommentRaw(p)) # <<>> THEN CommentOf(CommentRaw(p))
  ELSE IF Contains(ToLower(p), <<"m", "a", "i", "n", " ", "s", "t", "a", "r", "t", "s", " ", "h", "e", "r", "e">>) THEN <<<<"/", "/", " ", "m", "a", "i", "n", " ", "s", "t", "a", "r", "t", "s", " ", "h", "e", "r", "e">>>>
  ELSE <<>>

\* \b(?:and\s+)?(?:print|say|output|echo)\s+(.+)$ at position i of p: the
\* position where the capture starts, or 0.
PrintVerbs == {<<"p", "r", "i", "n", "t">>, <<"s", "a", "y">>, <<"o", "u", "t", "p", "u", "t">>, <<"e", "c", "h", "o">>}

PrintVerbAt(p, k) ==
  IF k > 0 /\ TokEnd(p, k, PrintVerbs) > 0 /\ IsSpace(Ch(p, TokEnd(p, k, PrintVerbs)))
     /\ SpacesEnd(p, TokEnd(p, k, PrintVerbs)) <= Len(p)
  THEN SpacesEnd(p, TokEnd(p, k, PrintVerbs))
  ELSE 0

PrintAt(p, i) ==
  IF ~Boundary(p, i) THEN 0
  ELSE IF PrintVerbAt(p, WordSpace(p, i, <<"a", "n", "d">>)) > 0 THEN PrintVerbAt(p, WordSpace(p, i, <<"a", "n", "d">>))
  ELSE PrintVerbAt(p, i)

PrintPos(p) == Leftmost({i \in 1..Len(p) : PrintAt(p, i) > 0})

print_msg(p) == IF PrintPos(p) > 0 THEN sanitize_text(From(p, PrintAt(p, PrintPos(p)))) ELSE <<>>

\* The output line for a message: a variable when it looks like one.
PrintLine(msg) ==
  IF msg = <<>> THEN <<>>
  ELSE IF \A i \in DOMAIN msg : IsWordChar(msg[i]) THEN <<NeuroBare(msg)>>
  ELSE <<neuro_line(msg)>>

DocLines(p, lines) == IF lines # <<>> THEN lines ELSE <<neuro_line(p)>>

\* build_doc_print_dsl on the unwrapped prompt p.
DocPrintOf(p) ==
  IF FormatStep(p) # <<>> THEN FormatStep(p)
  ELSE IF ValueStep(p) # <<>> THEN ValueStep(p)
  ELSE DocLines(p, comment_line(p) \o PrintLine(print_msg(p)))

\* build_doc_print_dsl: the lines of the synthesized text.
build_doc_print_dsl(prompt) == DocPrintOf(strip_wrapping_quotes(prompt))

\* \b(is|=)\s+([A-Za-z_][\w]*) at position i of p: the position of the
\* identifier, or 0.
IsValueAt(p, i) ==
  IF Boundary(p, i) /\ TokEnd(p, i, {<<"i", "s">>, <<"=">>}) > 0
     /\ IsSpace(Ch(p, TokEnd(p, i, {<<"i", "s">>, <<"=">>})))
     /\ IsIdentStart(Ch(p, SpacesEnd(p, TokEnd(p, i, {<<"i", "s">>, <<"=">>}))))
  THEN SpacesEnd(p, TokEnd(p, i, {<<"i", "s">>, <<"=">>}))
  ELSE 0

IsValuePos(p) == Leftmost({i \in 1..Len(p) : IsValueAt(p, i) > 0})

RoleValue(p) ==
  IF first_quoted(p).some THEN first_quoted(p).v
  ELSE IF IsValuePos(p) > 0 THEN IdentAt(p, IsValueAt(p, IsValuePos(p)))
  ELSE sTrue

RoleVar(p) == IF Contains(ToLower(p), <<"r", "o", "l", "e">>) THEN <<"r", "o", "l", "e">> ELSE <<"f", "l", "a", "g">>

SetLine(var, rhs) == <<"s", "e", "t", " ">> \o var \o <<" ", "=", " ">> \o rhs

PrintOf(p, var) == IF mentions_print(p) THEN <<NeuroBare(var)>> ELSE <<>>

RoleFlagOf(p) == <<SetLine(RoleVar(p), parse_rhs(RoleValue(p)))>> \o PrintOf(p, RoleVar(p))

\* build_roleflag_dsl
build_roleflag_dsl(prompt) == RoleFlagOf(strip_wrapping_quotes(prompt))

\* build_ai_bridge_dsl
build_ai_bridge_dsl(prompt) == <<neuro_line(prompt)>>

(* ------------------------------------------------------------------ *)
(* Macro synthesis: the SetVar, Concat and Arith templates             *)
(* ------------------------------------------------------------------ *)

\* ,?\s*(?:then|and)\s+(?:print|output|echo|say)\b at position g of p.
TailVerbs == {<<"p", "r", "i", "n", "t">>, <<"o", "u", "t", "p", "u", "t">>, <<"e", "c", "h", "o">>, <<"s", "a", "y">>}

VerbWord(p, k) == k > 0 /\ TokEnd(p, k, TailVerbs) > 0 /\ ~WordChar(p, TokEnd(p, k, TailVerbs))

ThenPrintAt(p, g) ==
  \/ VerbWord(p, WordSpace(p, SpacesEnd(p, PastComma(p, g)), <<"t", "h", "e", "n">>))
  \/ VerbWord(p, WordSpace(p, SpacesEnd(p, PastComma(p, g)), <<"a", "n", "d">>))

\* \band\s+([A-Za-z_][\w]*)\s*=\s*(.+?)(?:...|$) at position i of p: the
\* position where the expression starts, or 0.
AssignExpr(p, e) ==
  IF Ch(p, e) = "=" /\ SpacesEnd(p, e + 1) <= Len(p) THEN SpacesEnd(p, e + 1) ELSE 0

SecondAt(p, i) ==
  IF Boundary(p, i) /\ IsIdentStart(Ch(p, WordSpace(p, i, <<"a", "n", "d">>)))
  THEN AssignExpr(p, SpacesEnd(p, WordEnd(p, WordSpace(p, i, <<"a", "n", "d">>))))
  ELSE 0

SecondPos(p) == Leftmost({i \in 1..Len(p) : SecondAt(p, i) > 0})

\* Where the shortest expression that starts at position c ends.
SecondEnd(p, c) == Min({g \in (c + 1)..(Len(p) + 1) : g = Len(p) + 1 \/ ThenPrintAt(p, g)})

\* The second assignment of "set a = .. and b = ..", for the first variable
\* var: its line, and whether normalize_expr panics on it.
SecondExpr(p, c) == Trim(SubSeq(p, c, SecondEnd(p, c) - 1))

HasSecond(p, var) ==
  SecondPos(p) > 0 /\ IdentAt(p, WordSpace(p, SecondPos(p), <<"a", "n", "d">>)) # var

SecondLine(p, var) ==
  IF HasSecond(p, var)
  THEN <<SetLine(IdentAt(p, WordSpace(p, SecondPos(p), <<"a", "n", "d">>)),
                 normalize_expr(SecondExpr(p, SecondAt(p, SecondPos(p)))))>>
  ELSE <<>>

SecondPanics(p, var) == HasSecond(p, var) /\ clean_panics(SecondExpr(p, SecondAt(p, SecondPos(p))))

\* The lines that print: find_print_tail(..).or_else(|| Some(var))
TailLines(p, a) ==
  IF a.print
  THEN TmpLines(IF find_print_tail(p, a.var).some THEN find_print_tail(p, a.var).v ELSE a.var)
  ELSE <<>>

\* The lines for the assignment a that parse_var_expr found in p.
ArithLines(p, a) == <<SetLine(a.var, normalize_expr(a.expr))>> \o TailLines(p, a)

ArithPanics(p, a) == a.panic \/ clean_panics(a.expr) \/ (a.print /\ print_tail_panics(p, a.var))

\* String::replace('\'', "\"") on every line
DoubleQuoted(lines) == [i \in DOMAIN lines |-> ReplaceChar(lines[i], "'", "\"")]

SetVarLines(p, a) ==
  DoubleQuoted(<<SetLine(a.var, normalize_expr(a.expr))>> \o SecondLine(p, a.var) \o TailLines(p, a))

MainComment == <<"/", "/", " ", "m", "a", "i", "n", " ", "s", "t", "a", "r", "t", "s", " ", "h", "e", "r", "e">>

\* build_setvar_dsl on the unwrapped prompt p: a is what parse_var_expr(p)
\* returns, doc what build_doc_print_dsl(p) returns.
SetVarOf(p, a, doc) ==
  IF Contains(ToLower(p), <<"m", "a", "i", "n", " ", "s", "t", "a", "r", "t", "s", " ", "h", "e", "r", "e", " ", "u", "s", "i", "n", "g", " ", "/", "/">>) THEN <<NeuroQuoted(MainComment)>>
  ELSE IF IsCommentInstruction(ToLower(p)) /\ ~HasAssignment(ToLower(p))
       THEN (IF Contains(ToLower(p), <<"m", "a", "i", "n", " ", "s", "t", "a", "r", "t", "s", " ", "h", "e", "r", "e">>) THEN <<MainComment>>
             ELSE doc)
  ELSE IF a.some THEN SetVarLines(p, a)
  ELSE <<neuro_line(Trim(p))>>

SetVarPanicsOf(p, a) ==
  /\ ~Contains(ToLower(p), <<"m", "a", "i", "n", " ", "s", "t", "a", "r", "t", "s", " ", "h", "e", "r", "e", " ", "u", "s", "i", "n", "g", " ", "/", "/">>)
  /\ ~(IsCommentInstruction(ToLower(p)) /\ ~HasAssignment(ToLower(p)))
  /\ (a.panic \/ (a.some /\ (ArithPanics(p, a) \/ SecondPanics(p, a.var))))

\* build_setvar_dsl: the lines of the synthesized text; setvar_panics tells
\* that the call panics.
SetVarFor(p) == SetVarOf(p, parse_var_expr(p), DocPrintOf(p))
build_setvar_dsl(prompt) == SetVarFor(strip_wrapping_quotes(prompt))
SetVarPanicsFor(p) == SetVarPanicsOf(p, parse_var_expr(p))
setvar_panics(prompt) == SetVarPanicsFor(strip_wrapping_quotes(prompt))

\* (?:into|to)\s+([A-Za-z_][\w]*) at position i of p: the position of the
\* identifier, or 0.
IdentOr0(p, k) == IF k > 0 /\ IsIdentStart(Ch(p, k)) THEN k ELSE 0

IntoAt(p, i) ==
  IF IdentOr0(p, WordSpace(p, i, <<"i", "n", "t", "o">>)) > 0 THEN WordSpace(p, i, <<"i", "n", "t", "o">>)
  ELSE IdentOr0(p, WordSpace(p, i, <<"t", "o">>))

IntoPos(p) == Leftmost({i \in 1..Len(p) : IntoAt(p, i) > 0})

ConcatVar(p) == IF IntoPos(p) > 0 THEN IdentAt(p, IntoAt(p, IntoPos(p))) ELSE <<"r", "e", "s", "u", "l", "t">>

\* store\s+in\s+([A-Za-z_][\w]*) at position i of p: the position of the
\* identifier, or 0.
StoreIdentAt(p, i) == IdentOr0(p, WordSpace(p, WordSpace(p, i, <<"s", "t", "o", "r", "e">>), <<"i", "n">>))

\* The last place where that pattern matches at or behind position lo.
LastStore(p, lo) ==
  IF \E i \in lo..Len(p) : StoreIdentAt(p, i) > 0
  THEN Max({i \in lo..Len(p) : StoreIdentAt(p, i) > 0})
  ELSE 0

\* ^\s*concatenate\s+([A-Za-z_][\w]*)\s+(?:and\s+)?([A-Za-z_][\w]*).*
\* store\s+in\s+([A-Za-z_][\w]*): the position of the second identifier
\* behind the first one, which ends in front of position w; 0 when there is
\* no match.
SecondName(p, k) == IF IdentOr0(p, k) > 0 /\ LastStore(p, k + 1) > 0 THEN k ELSE 0

AndName(p, k2) ==
  IF SecondName(p, WordSpace(p, k2, <<"a", "n", "d">>)) > 0 THEN WordSpace(p, k2, <<"a", "n", "d">>)
  ELSE SecondName(p, k2)

ConcatNames(p) ==
  IF IdentOr0(p, WordSpace(p, 1, <<"c", "o", "n", "c", "a", "t", "e", "n", "a", "t", "e">>)) > 0
     /\ IsSpace(Ch(p, WordEnd(p, WordSpace(p, 1, <<"c", "o", "n", "c", "a", "t", "e", "n", "a", "t", "e">>))))
  THEN AndName(p, SpacesEnd(p, WordEnd(p, WordSpace(p, 1, <<"c", "o", "n", "c", "a", "t", "e", "n", "a", "t", "e">>))))
  ELSE 0

\* The second identifier, at position k: as long as the pattern allows.
NameAt(p, k) == SubSeq(p, k, Min({WordEnd(p, k), LastStore(p, k + 1)}) - 1)

PrintToo(p, var) ==
  IF mentions_print(p) \/ Contains(ToLower(p), <<"p", "r", "i", "n", "t">>) THEN <<NeuroBare(var)>> ELSE <<>>

NamesLines(p, k, target) ==
  <<SetLine(target, IdentAt(p, WordSpace(p, 1, <<"c", "o", "n", "c", "a", "t", "e", "n", "a", "t", "e">>)) \o <<" ", "+", " ">> \o NameAt(p, k))>>
    \o PrintToo(p, target)

\* build_concat_dsl on the unwrapped prompt p: quoted is its quoted texts, sv
\* what build_setvar_dsl(p) returns.
ConcatOf(p, quoted, sv) ==
  IF ConcatNames(p) > 0
  THEN NamesLines(p, ConcatNames(p), IdentAt(p, StoreIdentAt(p, LastStore(p, ConcatNames(p) + 1))))
  ELSE IF Len(quoted) >= 2
  THEN <<SetLine(ConcatVar(p), InQuotes(quoted[1]) \o <<" ", "+", " ">> \o InQuotes(quoted[2]))>>
         \o PrintToo(p, ConcatVar(p))
  ELSE IF Len(quoted) = 1
  THEN <<SetLine(ConcatVar(p), InQuotes(quoted[1]))>> \o PrintOf(p, ConcatVar(p))
  ELSE sv

\* The call of build_setvar_dsl at the end of build_concat_dsl panics.
ConcatPanicsOf(p, a) == ConcatNames(p) = 0 /\ all_quoted(p) = <<>> /\ SetVarPanicsOf(p, a)

\* build_concat_dsl
ConcatFor(p) == ConcatOf(p, all_quoted(p), SetVarFor(p))
build_concat_dsl(prompt) == ConcatFor(strip_wrapping_quotes(prompt))
ConcatPanicsFor(p) == ConcatPanicsOf(p, parse_var_expr(p))
concat_panics(prompt) == ConcatPanicsFor(strip_wrapping_quotes(prompt))

\* The position behind the run of the character c that starts at position k.
RECURSIVE RunEnd(_, _, _)
RunEnd(s, k, c) == IF Ch(s, k) = c THEN RunEnd(s, k + 1, c) ELSE k

\* \s*\)+\s*\*\s*(\d+)\s*and\s*store\s*in\s+([A-Za-z_][\w]*) at position g of
\* t, no closing parenthesis in front of g: the position of the digits, or 0.
WordThen(t, k, w) == IF k > 0 /\ At(ToLower(t), k, w) THEN SpacesEnd(t, k + Len(w)) ELSE 0

CalcTarget(t, d) ==
  IdentOr0(t, WordSpace(t, WordThen(t, WordThen(t, SpacesEnd(t, DigitsEnd(t, d)), <<"a", "n", "d">>), <<"s", "t", "o", "r", "e">>), <<"i", "n">>))

CalcDigits(t, k) == IF IsDigit(Ch(t, k)) /\ CalcTarget(t, k) > 0 THEN k ELSE 0

CalcStar(t, k) == IF Ch(t, k) = "*" THEN CalcDigits(t, SpacesEnd(t, k + 1)) ELSE 0

CalcTail(t, g) ==
  IF (\A j \in 1..(g - 1) : t[j] # ")") /\ Ch(t, SpacesEnd(t, g)) = ")"
  THEN CalcStar(t, SpacesEnd(t, RunEnd(t, SpacesEnd(t, g), ")")))
  ELSE 0

\* calculate\s*\(+\s*([^)]+?) and that tail at position i of p; t is p from
\* the first parenthesis on.
CalcIn(t) == Ch(t, 1) = "(" /\ Spans(t, 1, SpacesEnd(t, RunEnd(t, 1, "(")), CalcTail) # {}

CalcAt(p, i) == At(ToLower(p), i, <<"c", "a", "l", "c", "u", "l", "a", "t", "e">>) /\ CalcIn(From(p, SpacesEnd(p, i + 9)))

CalcPos(p) == Leftmost({i \in 1..Len(p) : CalcAt(p, i)})

CalcLine(t, c) ==
  SetLine(IdentAt(t, CalcTarget(t, c.next)),
          <<"(">> \o SubSeq(t, c.from, c.to - 1) \o <<")", " ", "*", " ">> \o DigitsFrom(t, c.next))

CalcOf(t) == <<CalcLine(t, Span(t, 1, SpacesEnd(t, RunEnd(t, 1, "(")), CalcTail))>>

\* subtract\s+([A-Za-z_][\w]*)\s+from\s+([A-Za-z_][\w]*) at position i of p:
\* the position of the second identifier, or 0.
SpacedWord(p, g, w) == IF IsSpace(Ch(p, g)) THEN WordSpace(p, SpacesEnd(p, g), w) ELSE 0

SubtractAt(p, i) ==
  IF IdentOr0(p, WordSpace(p, i, <<"s", "u", "b", "t", "r", "a", "c", "t">>)) > 0
  THEN IdentOr0(p, SpacedWord(p, WordEnd(p, WordSpace(p, i, <<"s", "u", "b", "t", "r", "a", "c", "t">>)), <<"f", "r", "o", "m">>))
  ELSE 0

SubtractPos(p) == Leftmost({i \in 1..Len(p) : SubtractAt(p, i) > 0})

\* divide\s+by\s+(\d+) at position i of p: the position of the digits, or 0.
DivideAt(p, i) ==
  IF IsDigit(Ch(p, WordSpace(p, WordSpace(p, i, <<"d", "i", "v", "i", "d", "e">>), <<"b", "y">>)))
  THEN WordSpace(p, WordSpace(p, i, <<"d", "i", "v", "i", "d", "e">>), <<"b", "y">>)
  ELSE 0

DividePos(p) == Leftmost({i \in 1..Len(p) : DivideAt(p, i) > 0})

Divisor(p) == IF DividePos(p) > 0 THEN DigitsFrom(p, DivideAt(p, DividePos(p))) ELSE <<"1">>

StorePos(p) == Leftmost({i \in 1..Len(p) : StoreIdentAt(p, i) > 0})

StoreTarget(p) == IF StorePos(p) > 0 THEN IdentAt(p, StoreIdentAt(p, StorePos(p))) ELSE <<"r", "e", "s", "u", "l", "t">>

Difference(minuend, subtrahend, div) ==
  IF div = <<"1">> THEN minuend \o <<" ", "-", " ">> \o subtrahend
  ELSE <<"(">> \o minuend \o <<" ", "-", " ">> \o subtrahend \o <<")", " ", "/", " ">> \o div

SubtractOf(p, i) ==
  <<SetLine(StoreTarget(p),
            Difference(IdentAt(p, SubtractAt(p, i)), IdentAt(p, WordSpace(p, i, <<"s", "u", "b", "t", "r", "a", "c", "t">>)), Divisor(p)))>>

\* subtract\s+(\w+)\s+from\s+(\w+).+divide\s+by\s+(\d+) at position i of p:
\* the position of the second word, or 0.
LastDivide(p, lo) ==
  IF \E i \in lo..Len(p) : DivideAt(p, i) > 0
  THEN Max({i \in lo..Len(p) : DivideAt(p, i) > 0})
  ELSE 0

WordOr0(p, k) == IF k > 0 /\ WordChar(p, k) THEN k ELSE 0

SubDivSecond(p, k) == IF k > 0 /\ LastDivide(p, k + 2) > 0 THEN k ELSE 0

SubDivAt(p, i) ==
  IF WordOr0(p, WordSpace(p, i, <<"s", "u", "b", "t", "r", "a", "c", "t">>)) > 0
  THEN SubDivSecond(p, WordOr0(p, SpacedWord(p, WordEnd(p, WordSpace(p, i, <<"s", "u", "b", "t", "r", "a", "c", "t">>)), <<"f", "r", "o", "m">>)))
  ELSE 0

SubDivPos(p) == Leftmost({i \in 1..Len(p) : SubDivAt(p, i) > 0})

SubDivOf(p, i, k) ==
  <<SetLine(<<"r", "e", "s", "u", "l", "t">>,
            <<"(">> \o SubSeq(p, k, Min({WordEnd(p, k), LastDivide(p, k + 2) - 1}) - 1) \o <<" ", "-", " ">>
              \o SubSeq(p, WordSpace(p, i, <<"s", "u", "b", "t", "r", "a", "c", "t">>), WordEnd(p, WordSpace(p, i, <<"s", "u", "b", "t", "r", "a", "c", "t">>)) - 1)
              \o <<")", " ", "/", " ">> \o DigitsFrom(p, DivideAt(p, LastDivide(p, k + 2))))>>
    \o PrintOf(p, <<"r", "e", "s", "u", "l", "t">>)

\* The first two forms of build_arith_dsl apply to p.
IsCalc(p) == CalcPos(p) > 0

IsSubtract(p) ==
  /\ Contains(ToLower(p), <<"s", "u", "b", "t", "r", "a", "c", "t">>)
  /\ Contains(ToLower(p), <<"s", "t", "o", "r", "e", " ", "i", "n">>)
  /\ SubtractPos(p) > 0

\* build_arith_dsl on the unwrapped prompt p: a is what parse_var_expr(p)
\* returns, sv what build_setvar_dsl(p) returns.
ArithOf(p, a, sv) ==
  IF IsCalc(p) THEN CalcOf(From(p, SpacesEnd(p, CalcPos(p) + 9)))
  ELSE IF IsSubtract(p) THEN SubtractOf(p, SubtractPos(p))
  ELSE IF a.some THEN ArithLines(p, a)
  ELSE IF SubDivPos(p) > 0 THEN SubDivOf(p, SubDivPos(p), SubDivAt(p, SubDivPos(p)))
  ELSE sv

ArithPanicsOf(p, a) ==
  /\ ~IsCalc(p)
  /\ ~IsSubtract(p)
  /\ (a.panic \/ (a.some /\ ArithPanics(p, a)))

\* build_arith_dsl
ArithFor(p) == ArithOf(p, parse_var_expr(p), SetVarFor(p))
build_arith_dsl(prompt) == ArithFor(strip_wrapping_quotes(prompt))
ArithPanicsFor(p) == ArithPanicsOf(p, parse_var_expr(p))
arith_panics(prompt) == ArithPanicsFor(strip_wrapping_quotes(prompt))

(* ------------------------------------------------------------------ *)
(* Macro synthesis: the label and build_macro_dsl                      *)
(* ------------------------------------------------------------------ *)

\* The labels of the macro classifier (ai/model.rs).
MacroLabels ==
  {"Loop", "Branch", "Arith", "Concat", "RoleFlag", "AIBridge", "DocPrint", "SetVar", "Unknown"}

HasConcatWord(plow) ==
  \/ Contains(plow, <<"c", "o", "m", "b", "i", "n", "e">>)
  \/ Contains(plow, <<"j", "o", "i", "n">>)
  \/ Contains(plow, <<"c", "o", "n", "c", "a", "t">>)
  \/ Contains(plow, <<"c", "o", "n", "c", "a", "t", "e", "n", "a", "t", "e">>)

StartsDocPrint(plow) ==
  \E w \in {<<"p", "r", "i", "n", "t", " ">>, <<"o", "u", "t", "p", "u", "t", " ">>, <<"e", "c", "h", "o", " ">>, <<"s", "a", "y", " ">>, <<"d", "i", "s", "p", "l", "a", "y", " ">>, <<"f", "o", "r", "m", "a", "t", " ">>} :
    StartsWith(TrimStart(plow), w)

HasAny(s, signs) == \E i \in DOMAIN s : s[i] \in signs

\* infer_label_from_prompt
infer_label_from_prompt(prompt) ==
  IF looks_like_loop_prompt(prompt) THEN "Loop"
  ELSE IF StartsWithIf(prompt) THEN "Branch"
  ELSE IF HasConcatWord(ToLower(prompt)) /\ Len(all_quoted(prompt)) >= 2 THEN "Concat"
  ELSE IF IsCommentInstruction(ToLower(prompt)) THEN "DocPrint"
  ELSE IF HasAssignment(ToLower(prompt))
       THEN (IF HasAny(prompt, {"+", "-", "*", "%", "/"}) THEN "Arith" ELSE "SetVar")
  ELSE IF StartsDocPrint(ToLower(prompt)) THEN "DocPrint"
  ELSE "Unknown"

\* embedded_set_re: \b(?:then|and)\s+set\s+[A-Za-z_][\w]*\s*(?:=|to)\s+ at
\* position i of p (the identifier may end in front of a to that is part of
\* the word).
SetSign(p, e) ==
  /\ TokEnd(p, SpacesEnd(p, e), {<<"=">>, <<"t", "o">>}) > 0
  /\ IsSpace(Ch(p, TokEnd(p, SpacesEnd(p, e), {<<"=">>, <<"t", "o">>})))

SetWordAt(p, k) ==
  /\ IdentOr0(p, WordSpace(p, k, <<"s", "e", "t">>)) > 0
  /\ \E e \in (WordSpace(p, k, <<"s", "e", "t">>) + 1)..WordEnd(p, WordSpace(p, k, <<"s", "e", "t">>)) : SetSign(p, e)

EmbeddedSetAt(p, i) ==
  /\ Boundary(p, i)
  /\ \/ SetWordAt(p, WordSpace(p, i, <<"t", "h", "e", "n">>))
     \/ SetWordAt(p, WordSpace(p, i, <<"a", "n", "d">>))

has_embedded_set(p) == \E i \in 1..Len(p) : EmbeddedSetAt(p, i)

\* The prompt is an assignment for the label: it starts with set, create or
\* store, or holds an embedded set.
StartsAssignment(p) ==
  \/ (\E w \in {<<"s", "e", "t", " ">>, <<"c", "r", "e", "a", "t", "e", " ">>, <<"s", "t", "o", "r", "e", " ">>} : StartsWith(TrimStart(ToLower(p)), w))
  \/ has_embedded_set(p)

\* has_math, a the result of parse_var_expr.
MathIn(e) ==
  HasAny(e, {"+", "-", "*", "/", "%"}) \/ Contains(e, <<" ", "p", "l", "u", "s", " ">>) \/ Contains(e, <<" ", "m", "i", "n", "u", "s", " ">>)

MathInPrompt(plow) ==
  \/ HasAny(plow, {"+", "-", "*", "%"})
  \/ (HasAny(plow, {"/"}) /\ ~Contains(plow, <<"/", "/">>))
  \/ Contains(plow, <<" ", "p", "l", "u", "s", " ">>)
  \/ Contains(plow, <<" ", "m", "i", "n", "u", "s", " ">>)

has_math(p, a) == IF a.some THEN MathIn(ToLower(a.expr)) ELSE MathInPrompt(ToLower(p))

\* The answer of the macro classifier for a prompt: none when no classifier
\* is loaded or the classification failed; confident when the score reaches
\* macro_intent_threshold().
NoAnswer == [label |-> "Unknown", confident |-> FALSE]

\* The label the classifier's answer and the prompt p give, before the
\* preferences.
FirstLabel(p, answer) == IF answer.confident THEN answer.label ELSE infer_label_from_prompt(p)

NotLoop(p, l) ==
  IF l = "Loop" /\ StartsWithIf(p) THEN "Branch"
  ELSE IF l = "Loop" /\ ~looks_like_loop_prompt(p) THEN infer_label_from_prompt(p)
  ELSE l

PreferAssign(p, l) ==
  IF StartsAssignment(p) THEN (IF has_math(p, parse_var_expr(p)) THEN "Arith" ELSE "SetVar") ELSE l

PreferConcat(p, l) ==
  IF HasConcatWord(ToLower(p)) /\ Len(all_quoted(p)) >= 2 THEN "Concat" ELSE l

PreferComment(p, l) ==
  IF IsCommentInstruction(ToLower(p)) /\ ~HasAssignment(ToLower(p)) THEN "DocPrint" ELSE l

PreferPrint(p, l) ==
  IF StartsDocPrint(ToLower(p)) /\ ~HasAssignment(ToLower(p)) /\ ~looks_like_loop_prompt(p)
  THEN "DocPrint"
  ELSE l

\* label_for_template, and whether finding it panics (in parse_var_expr).
label_for_template(p, answer) ==
  PreferPrint(p, PreferComment(p, PreferConcat(p, PreferAssign(p, NotLoop(p, FirstLabel(p, answer))))))

label_panics(p) == StartsAssignment(p) /\ parse_var_expr(p).panic

\* ^(?:show|print|output|echo)\s+([A-Za-z_][\w]*)\s+when\s+([A-Za-z_][\w]*)
\* \s+is\s+([A-Za-z_][\w]*)\s*$ on the trimmed prompt t: the positions of the
\* three identifiers, the first one 0 when there is no match.
WhenVerbs == {<<"s", "h", "o", "w">>, <<"p", "r", "i", "n", "t">>, <<"o", "u", "t", "p", "u", "t">>, <<"e", "c", "h", "o">>}

WhenShown(t) ==
  IF TokEnd(t, 1, WhenVerbs) > 0 /\ IsSpace(Ch(t, TokEnd(t, 1, WhenVerbs)))
  THEN IdentOr0(t, SpacesEnd(t, TokEnd(t, 1, WhenVerbs)))
  ELSE 0

WhenVar(t, k) == IF k > 0 THEN IdentOr0(t, SpacedWord(t, WordEnd(t, k), <<"w", "h", "e", "n">>)) ELSE 0

WhenValue(t, k) ==
  IF k > 0 /\ IdentOr0(t, SpacedWord(t, WordEnd(t, k), <<"i", "s">>)) > 0
     /\ SpacesEnd(t, WordEnd(t, SpacedWord(t, WordEnd(t, k), <<"i", "s">>))) > Len(t)
  THEN SpacedWord(t, WordEnd(t, k), <<"i", "s">>)
  ELSE 0

IsWhen(t) == WhenValue(t, WhenVar(t, WhenShown(t))) > 0

WhenRhs(raw) == IF IsBareValue(raw) THEN raw ELSE InQuotes(raw)

WhenLines(t) ==
  <<<<"i", "f", " ">> \o IdentAt(t, WhenVar(t, WhenShown(t))) \o <<" ", "=", "=", " ">>
      \o WhenRhs(IdentAt(t, WhenValue(t, WhenVar(t, WhenShown(t))))) \o <<":">>,
    <<" ", " ", " ", " ", "n", "e", "u", "r", "o", " ">> \o IdentAt(t, WhenShown(t))>>

\* The two print forms that build_macro_dsl tries first, for a label other
\* than SetVar and Arith: the lines, none when they do not apply.
PrintFirst(prompt) ==
  IF ~Contains(prompt, <<"+">>) THEN <<>>
  ELSE IF StartsWith(ToLower(TrimStart(prompt)), <<"p", "r", "i", "n", "t", " ">>) THEN build_print_concat_dsl(TrimStart(prompt))
  ELSE IF RFind(ToLower(prompt), <<"p", "r", "i", "n", "t", " ">>) > 0
       THEN build_print_concat_dsl(From(prompt, RFind(ToLower(prompt), <<"p", "r", "i", "n", "t", " ">>)))
  ELSE <<>>

\* The forms that build_macro_dsl recognizes whatever the label is: the
\* lines, none when no form applies; br is what build_branch_dsl(prompt)
\* returns.
FixedForms(prompt, br) ==
  IF StartsWithIf(prompt) THEN br
  ELSE IF IsWhen(Trim(prompt)) THEN WhenLines(Trim(prompt))
  ELSE IF Contains(ToLower(prompt), <<"s", "u", "b", "t", "r", "a", "c", "t", " ", "y", " ", "f", "r", "o", "m", " ", "x", ",", " ", "d", "i", "v", "i", "d", "e", " ", "b", "y", " ", "4", ",", " ", "s", "t", "o", "r", "e", " ", "i", "n", " ", "q">>)
       THEN <<<<"s", "e", "t", " ", "q", " ", "=", " ", "(", "x", " ", "-", " ", "y", ")", " ", "/", " ", "4">>>>
  ELSE IF Contains(ToLower(prompt), <<"c", "o", "n", "c", "a", "t", "e", "n", "a", "t", "e", " ", "n", "a", "m", "e", " ", "a", "n", "d", " ", "s", "c", "o", "r", "e", " ", "w", "i", "t", "h", " ", "'", "+", "'", " ", "a", "n", "d", " ", "s", "t", "o", "r", "e", " ", "i", "n", " ", "r", "e", "s", "u", "l", "t">>)
       THEN <<<<"s", "e", "t", " ", "r", "e", "s", "u", "l", "t", " ", "=", " ", "n", "a", "m", "e", " ", "+", " ", "s", "c", "o", "r", "e">>>>
  ELSE IF Contains(ToLower(prompt), <<" ", "e", "l", "s", "e", " ">>) /\ Contains(ToLower(prompt), <<"i", "f", " ">>)
       THEN br
  ELSE <<>>

\* The template of the label.  The templates share what they compute from
\* the prompt: p is the unwrapped prompt, a what parse_var_expr(p) returns,
\* br, doc and sv what build_branch_dsl, build_doc_print_dsl and
\* build_setvar_dsl return.
LabelLines(label, prompt, p, a, br, doc, sv) ==
  CASE label = "Loop" -> build_loop_dsl(prompt)
    [] label = "Branch" -> br
    [] label = "Arith" -> ArithOf(p, a, sv)
    [] label = "Concat" -> ConcatOf(p, all_quoted(p), sv)
    [] label = "RoleFlag" -> build_roleflag_dsl(prompt)
    [] label = "AIBridge" -> build_ai_bridge_dsl(prompt)
    [] label = "DocPrint" -> doc
    [] label = "SetVar" -> sv
    [] OTHER -> <<neuro_line(prompt)>>

\* The template of the label panics.
LabelPanics(label, p, a) ==
  \/ (label = "Arith" /\ ArithPanicsOf(p, a))
  \/ (label = "Concat" /\ ConcatPanicsOf(p, a))
  \/ (label = "SetVar" /\ SetVarPanicsOf(p, a))

\* What a call of build_macro_dsl does: it panics, or it returns lines.
Built(pan, lines) == [panics |-> pan, lines |-> IF pan THEN <<>> ELSE lines]

ByVar(label, prompt, p, a, br, doc) ==
  Built(LabelPanics(label, p, a), LabelLines(label, prompt, p, a, br, doc, SetVarOf(p, a, doc)))

ByPrompt(label, prompt, p, br) == ByVar(label, prompt, p, parse_var_expr(p), br, DocPrintOf(p))

ByLabel(label, prompt, br) == ByPrompt(label, prompt, strip_wrapping_quotes(prompt), br)

MacroForms(label, prompt, pf, ff, br) ==
  IF label \notin {"SetVar", "Arith"} /\ pf # <<>> THEN Built(FALSE, pf)
  ELSE IF ff # <<>> THEN Built(FALSE, ff)
  ELSE ByLabel(label, prompt, br)

BuildParts(label, prompt, pf, br) == MacroForms(label, prompt, pf, FixedForms(prompt, br), br)

BuildOf(label, prompt) == BuildParts(label, prompt, PrintFirst(prompt), build_branch_dsl(prompt))

\* build_macro_dsl: the lines of the synthesized text; macro_panics tells
\* that the call panics.
build_macro_dsl(label, prompt) == BuildOf(label, prompt).lines

macro_panics(label, prompt) == BuildOf(label, prompt).panics

(* ------------------------------------------------------------------ *)
(* Interpreter::run (interpreter/mod.rs)                               *)
(* ------------------------------------------------------------------ *)

\* An interpreter during a call of run: the fields of Interpreter, the status
\* of the call ("ok", "panic", or "unrep" for a value outside the model) and
\* the texts handed to predict since the call began.
Insert(vars, k, v) == [n \in DOMAIN vars \cup {k} |-> IF n = k THEN v ELSE vars[n]]

IsQuoted(s) == StartsWith(s, <<"\"">>) /\ EndsWith(s, <<"\"">>)

\* ASTNode::Neuro: the message emitted for arg.
NeuroMsg(vars, arg) ==
  IF IsQuoted(arg) THEN TrimQuotes(arg)
  ELSE IF arg \in DOMAIN vars THEN Trim(vars[arg])
  ELSE Trim(TrimQuotes(arg))

\* An emit that pushes the message twice.
emit_neuroTwice(st, msg) == [st EXCEPT !.output = Append(Append(@, msg), msg)]

\* emit_neuro
emit_neuro(st, msg) == [st EXCEPT !.output = Append(@, msg)]

\* An arm that goes on without a model when the load fails.
ExecAIModelSkip(st, path) ==
  IF AIModel_new(path).ok
  THEN [st EXCEPT !.ai_model = AIModel_new(path).m]
  ELSE st

\* ASTNode::AIModel
ExecAIModel(st, path) ==
  LET r == AIModel_new(path)
  IN IF ~r.ok THEN [st EXCEPT !.status = "panic"]
     ELSE [st EXCEPT !.ai_model = r.m,
                     !.macro_model = IF r.m.kind = "MacroIntent" THEN r.m ELSE @]

\* An insert of the value as eval_expr returned it.
InsertValueRaw(st, name, r) ==
  IF r.st # "ok" THEN [st EXCEPT !.status = r.st]
  ELSE [st EXCEPT !.variables = Insert(@, name, r.v)]

\* ASTNode::SetVar
\* self.variables.insert(name, val) for the outcome r of eval_expr.
InsertValue(st, name, r) ==
  IF r.st # "ok" THEN [st EXCEPT !.status = r.st]
  ELSE [st EXCEPT !.variables = Insert(@, name, Trim(r.v))]

ExecSetVar(st, name, expr) == InsertValue(st, name, eval_expr(st.variables, expr))

\* An arm that expects the prediction to succeed.
ExecSetVarFromAIStrict(st, name, prompt) ==
  IF st.ai_model.some
  THEN IF predict(st.ai_model, prompt).ok
       THEN [st EXCEPT !.variables = Insert(@, name, Trim(predict(st.ai_model, prompt).v)),
                       !.calls = Append(@, prompt)]
       ELSE [st EXCEPT !.status = "panic"]
  ELSE [st EXCEPT !.variables = Insert(@, name, Trim(prompt))]

\* ASTNode::SetVarFromAI
ExecSetVarFromAI(st, name, prompt) ==
  IF st.ai_model.some
  THEN LET p == predict(st.ai_model, prompt)
       IN [st EXCEPT !.variables = Insert(@, name, IF p.ok THEN Trim(p.v) ELSE Trim(prompt)),
                     !.calls = Append(@, prompt)]
  ELSE [st EXCEPT !.variables = Insert(@, name, Trim(prompt))]

\* The condition c evaluated in st: the value, and st with the calls recorded.
CondOf(st, r) == [v |-> r.v, st |-> [st EXCEPT !.calls = @ \o r.calls]]

Cond(st, c) == CondOf(st, eval_bool(st.variables, st.ai_model, c))

RECURSIVE run(_, _), exec(_, _), run_elifs(_, _, _), ElifArm(_, _, _)

\* ASTNode::IfStatement after a false condition: the elif blocks in order, then
\* the else body.
run_elifs(st, elifs, else_body) ==
  IF elifs = <<>>
  THEN IF else_body.some THEN run(st, else_body.blk) ELSE st
  ELSE ElifArm(Cond(st, elifs[1].c), elifs, else_body)

\* An elif arm that runs its block and goes on to the arms behind it.
ElifArmFall(c, elifs, else_body) ==
  run_elifs(IF c.v THEN run(c.st, elifs[1].blk) ELSE c.st, Tail(elifs), else_body)

\* The first elif block, its condition c evaluated.
ElifArm(c, elifs, else_body) ==
  IF c.v THEN run(c.st, elifs[1].blk) ELSE run_elifs(c.st, Tail(elifs), else_body)

\* ASTNode::IfStatement, its condition c evaluated.
IfArm(c, node) ==
  IF c.v THEN run(c.st, node.body)
  ELSE run_elifs(c.st, node.elif_blocks, node.else_body)

\* macro_model_path() with none of NC_MACRO_MODEL, NC_MACRO_MODEL_PATH and
\* NC_MODELS_DIR set; the host keeps no model file there.
macro_model_path == <<"m", "o", "d", "e", "l", "s", "/", "i", "n", "t", "e", "n", "t", "_", "m", "a", "c", "r", "o", "/", "m", "o", "d", "e", "l", ".", "o", "n", "n", "x">>

\* ensure_macro_model: the interpreter after the call; its macro_model is the
\* model the call returns.
ensure_macro_model(st) ==
  IF st.macro_model.some THEN st
  ELSE IF st.ai_model.some /\ st.ai_model.kind = "MacroIntent"
       THEN [st EXCEPT !.macro_model = st.ai_model]
  ELSE IF AIModel_new(macro_model_path).ok
       THEN [st EXCEPT !.macro_model = AIModel_new(macro_model_path).m]
  ELSE st

\* predict_with_score of the macro model m and the comparison of the score
\* with macro_intent_threshold(): the MacroIntent model of the host answers
\* as predict does, with a score over the threshold.
Classified(m, prompt) ==
  IF m.some /\ predict(m, prompt).ok
  THEN [label |-> "Loop", confident |-> TRUE]
  ELSE NoAnswer

\* The two reachable shortcuts of ASTNode::MacroCall.
MainStartsHere(instr) ==
  \/ Contains(ToLower(instr), <<"m", "a", "i", "n", " ", "s", "t", "a", "r", "t", "s", " ", "h", "e", "r", "e", " ", "u", "s", "i", "n", "g", " ", "/", "/">>)
  \/ Contains(ToLower(Trim(instr)), <<"m", "a", "i", "n", " ", "s", "t", "a", "r", "t", "s", " ", "h", "e", "r", "e">>)

\* dsl.trim().is_empty()
IsEmptyDsl(lines) == \A i \in DOMAIN lines : Trim(lines[i]) = <<>>

\* The text handed to tokenize: the quotes replaced, the last resort when
\* nothing is left.
FinalDsl(lines, prompt) == IF IsEmptyDsl(lines) THEN <<neuro_line(prompt)>> ELSE lines

\* A synthesis that panicked, and one that returned the lines.
Panicked == [panics |-> TRUE, lines |-> <<>>]
Synthesized(lines) == [panics |-> FALSE, lines |-> lines]

\* build_macro_dsl for the label found (lp: finding it panicked), then
\* dsl.replace and the last resort.
Finished(r, prompt) ==
  IF r.panics THEN Panicked ELSE Synthesized(FinalDsl(DoubleQuoted(r.lines), prompt))

Synthesis(prompt, label, lp) ==
  IF lp THEN Panicked
  ELSE Finished(BuildOf(label, prompt), prompt)

SynthFor(m, prompt) ==
  Synthesis(prompt, label_for_template(prompt, Classified(m, prompt)), label_panics(prompt))

\* The text synthesized for the instruction by an interpreter whose macro
\* model is m, or the panic of the synthesis.
MacroSynth(m, instr) ==
  IF MainStartsHere(instr) THEN Synthesized(<<NeuroQuoted(MainComment)>>)
  ELSE SynthFor(m, strip_wrapping_quotes(Trim(instr)))

MacroDsl(m, instr) == MacroSynth(m, instr).lines

MacroPanics(m, instr) == MacroSynth(m, instr).panics

\* A match that runs the statements on a fresh copy of the variables.
RunTokensApart(st, r) ==
  IF r.ok THEN [st EXCEPT !.output = run([st EXCEPT !.variables = [n \in {} |-> <<>>]], parse(r.toks)).output]
  ELSE st

\* match tokenize(&dsl).map(parse_nodes): Ok runs the statements on this
\* interpreter, Err reports "Macro execution failed" and goes on.
RunTokens(st, r) == IF r.ok THEN run(st, parse(r.toks)) ELSE st

\* ASTNode::MacroCall, the text synthesized as r.
MacroArm(st, r) ==
  IF r.panics THEN [st EXCEPT !.status = "panic"] ELSE RunTokens(st, tokenize(r.lines))

\* ASTNode::MacroCall, the macro model ensured.
MacroEnsured(st, instr) == MacroArm(st, MacroSynth(st.macro_model, instr))

\* ASTNode::MacroCall
ExecMacroCall(st, instr) ==
  MacroEnsured(IF MainStartsHere(instr) THEN st ELSE ensure_macro_model(st), instr)

\* One arm of the match in run.
exec(st, node) ==
  CASE node.t = "AIModel" -> ExecAIModel(st, node.path)
    [] node.t = "Neuro" -> emit_neuro(st, NeuroMsg(st.variables, node.arg))
    [] node.t = "SetVar" -> ExecSetVar(st, node.name, node.expr)
    [] node.t = "SetVarFromAI" -> ExecSetVarFromAI(st, node.name, node.prompt)
    [] node.t = "IfStatement" -> IfArm(Cond(st, node.condition), node)
    [] node.t = "MacroCall" -> ExecMacroCall(st, node.instr)

\* Interpreter::run: the nodes in order; a panic ends the call.
run(st, ast) ==
  IF ast = <<>> \/ st.status # "ok" THEN st
  ELSE run(exec(st, ast[1]), Tail(ast))

(* ------------------------------------------------------------------ *)
(* State                                                               *)
(* ------------------------------------------------------------------ *)

VARIABLES
  variables,    \* Interpreter.variables
  output,       \* Interpreter.output
  ai_model,     \* Interpreter.ai_model
  macro_model,  \* Interpreter.macro_model
  pc,           \* "idle": no call runs; "ran": a call of run has returned;
                \* "aborted": a call panicked; "looped": build_loop_dsl has
                \* returned; "built": build_macro_dsl has returned;
                \* "labelled": label_for_template has its final value
  last,         \* the statements of the last call of run
  calls,        \* the texts handed to predict during the last call
  indent_stack, \* tokenize: indent_stack
  tokens,       \* tokenize: tokens
  line_idx,     \* tokenize: the number of lines consumed
  raw_line,     \* tokenize: the line consumed last
  lex_pc,       \* "off", "lines" (in the loop over the lines), "done" (Ok
                \* returned), "failed" (Err returned)
  it,           \* parse: the tokens not yet consumed
  ast,          \* parse: ast
  parse_pc,     \* "off", "loop" (in the loop of parse), "done"
  input,        \* the argument of the call under way: the lines handed to
                \* tokenize, the tokens handed to the parser, or the label and
                \* the prompt handed to build_macro_dsl
  dsl,          \* the text build_macro_dsl returned last, as its lines
  result,       \* engine::analyze: the Result returned last
  norm,         \* engine::normalize_legacy: the String returned last
  label,        \* Interpreter::run, MacroCall: label_for_template as handed
                \* to build_macro_dsl
  api_key,      \* AppState.api_key
  inference_sem,       \* AppState.inference_sem: the permits available
  per_ip,              \* AppState.per_ip: the bucket (its semaphore and
                       \* last_seen) of every address in the table
  ip_cleanup_counter,  \* AppState.ip_cleanup_counter
  clock,               \* Instant::now(), in units of the bucket TTL
  reqs                 \* the calls of api_analyze under way: for each, its
                       \* position in the handler and what it holds

interp == <<variables, output, ai_model, macro_model>>
runVars == <<variables, output, ai_model, macro_model, pc, last, calls>>
lexVars == <<indent_stack, tokens, line_idx, raw_line, lex_pc>>
parseVars == <<it, ast, parse_pc>>
srvVars == <<api_key, inference_sem, per_ip, ip_cleanup_counter, clock, reqs>>
hostVars == <<result, norm, label, srvVars>>
vars == <<runVars, lexVars, parseVars, input, dsl, hostVars>>

\* No tokenize call is in progress.
LexOff ==
  /\ indent_stack = <<0>>
  /\ tokens = <<>>
  /\ line_idx = 0
  /\ raw_line = <<>>
  /\ lex_pc = "off"

\* analyze has not returned yet.
NoResult == [kind |-> "none", text |-> <<>>]

\* Result<String, String>: Ok(text) and Err(text).
ResultOk(text) == [kind |-> "ok", text |-> text]
ResultErr(text) == [kind |-> "err", text |-> text]

\* The check mark of the sentinel is one character; the words after it and the
\* two error sentences are kept as one unit of text each.
CheckMark == "(check mark)"
Succeeded == <<CheckMark, " Execution succeeded.">>
RuntimeError == <<CrossMark, " Runtime error (e.g. undefined variable).">>
LexError == <<"(the message of the lexer)">>

\* output.join("\n") of take_output.
RECURSIVE JoinLines(_)
JoinLines(lines) ==
  IF lines = <<>> THEN <<>>
  ELSE IF Len(lines) = 1 THEN lines[1]
  ELSE lines[1] \o <<"\n">> \o JoinLines(Tail(lines))

\* out.trim().is_empty(): out has white space only.
IsBlank(out) == \A i \in DOMAIN out : out[i] \in {" ", "\n"}

\* take_output handed on as it is.
TakenRaw(out) == ResultOk(out)

\* The closure of analyze after the run: take_output, and the sentinel in
\* place of a blank text.
Taken(out) == ResultOk(IF IsBlank(out) THEN Succeeded ELSE out)

\* main of the server with NC_MAX_INFER and NC_MAX_INFER_PER_IP unset:
\* max_infer is 2 and per_ip_max is max_infer / 2, not below 1 and not above
\* max_infer.
MaxInfer == 2
PerIpMax == Min({MaxInfer, Max({1, MaxInfer \div 2})})

\* The calls of api_analyze that can be under way at a time: one more than
\* there are permits.
MaxHandlers == MaxInfer + 1
Handlers == 1..MaxHandlers

\* No call of api_analyze is under way in a handler.
\* The headers of a request that carries no credential.
NoHeaders == [x_api_key |-> NoText, authorization |-> NoText]

NoReq == [at |-> "idle", ip |-> "none", carries |-> FALSE, sem |-> 0, ip_permit |-> 0, permit |-> FALSE, status |-> 0, ok |-> FALSE, ran |-> FALSE]

\* The server state that main builds: no key, every permit available, an
\* empty table.
ServerOff ==
  /\ api_key = NoText
  /\ inference_sem = MaxInfer
  /\ per_ip = [a \in {} |-> 0]
  /\ ip_cleanup_counter = 0
  /\ clock = 0
  /\ reqs = [h \in Handlers |-> NoReq]

\* No call of analyze has returned, nothing is normalized, no request is
\* under way.
HostOff ==
  /\ result = NoResult
  /\ norm = <<>>
  /\ label = "none"
  /\ ServerOff

\* No parse call is in progress.
ParseOff ==
  /\ it = <<>>
  /\ ast = <<>>
  /\ parse_pc = "off"
  /\ input = <<>>
  /\ dsl = <<>>
  /\ HostOff

\* The interpreter as a record, at the start of a call.
Self == [variables |-> variables, output |-> output, ai_model |-> ai_model,
         macro_model |-> macro_model, status |-> "ok", calls |-> <<>>]

NoVars == [n \in {} |-> <<>>]

\* Interpreter::new
InitInterp ==
  /\ variables = NoVars
  /\ output = <<>>
  /\ ai_model = NoModel
  /\ macro_model = NoModel
  /\ pc = "idle"
  /\ last = <<>>
  /\ calls = <<>>
  /\ LexOff
  /\ ParseOff

(* ------------------------------------------------------------------ *)
(* Calls of run                                                        *)
(* ------------------------------------------------------------------ *)

\* The interpreter after a call of run that ended as r.  A call whose values
\* leave the modelled numbers is not taken.
Returned(r, nodes) ==
  /\ r.status # "unrep"
  /\ variables' = r.variables
  /\ output' = r.output
  /\ ai_model' = r.ai_model
  /\ macro_model' = r.macro_model
  /\ calls' = r.calls
  /\ pc' = IF r.status = "panic" THEN "aborted" ELSE "ran"
  /\ last' = nodes
  /\ UNCHANGED <<lexVars, parseVars, input, dsl, hostVars>>

\* interp.run(ast), from the host (as the tests of interpreter/tests.rs call
\* it).
RunCall(nodes) ==
  /\ pc = "idle"
  /\ Returned(run(Self, nodes), nodes)

\* The call returns to the host.
Return ==
  /\ pc = "ran"
  /\ pc' = "idle"
  /\ last' = <<>>
  /\ calls' = <<>>
  /\ UNCHANGED <<interp, lexVars, parseVars, input, dsl, hostVars>>

(* ------------------------------------------------------------------ *)
(* Expressions: one assignment, over a menu of operands and of         *)
(* environments                                                        *)
(* ------------------------------------------------------------------ *)

nX == <<"x">>
nY == <<"y">>
sHi == <<"H", "i">>

\* The operands: quoted texts, numbers, a variable, an unbound identifier.
Leaves ==
  { StringLit(<<"4">>), StringLit(<<" ", "o", "k", " ">>), StringLit(sHi),
    Value(<<"1", "0">>), Value(<<"2">>), Value(<<"0">>), Value(nX), Value(<<"b">>) }

BinExprs == {BinaryOp(l, op, r) : l \in Leaves, op \in BinaryOperator, r \in Leaves}

\* What x is bound to before the assignment: the expressions of earlier
\* statements `set x = ...` (a text, numbers, a negative number, a fraction,
\* NaN, a negative zero, the error sentence).
EnvExprs ==
  { StringLit(<<"h", "i">>), Value(<<"7">>), StringLit(<<" ", "2", " ">>),
    BinaryOp(Value(<<"0">>), "Sub", Value(<<"2">>)),
    BinaryOp(Value(<<"1", "0">>), "Div", Value(<<"4">>)),
    BinaryOp(Value(<<"1", "0">>), "Div", Value(<<"0">>)),
    BinaryOp(Value(<<"0">>), "Mul", BinaryOp(Value(<<"0">>), "Sub", Value(<<"2">>))),
    BinaryOp(StringLit(sHi), "Sub", Value(<<"2">>)) }

NewInterp == [variables |-> NoVars, output |-> <<>>, ai_model |-> NoModel,
              macro_model |-> NoModel, status |-> "ok", calls |-> <<>>]

\* The environments of an interpreter that has run at most one `set x = ...`.
EnvMenu == {NoVars} \cup {run(NewInterp, <<SetVar(nX, e)>>).variables : e \in EnvExprs}

InitExpr ==
  /\ variables \in EnvMenu
  /\ output = <<>>
  /\ ai_model = NoModel
  /\ macro_model = NoModel
  /\ pc = "idle"
  /\ last = <<>>
  /\ calls = <<>>
  /\ LexOff
  /\ ParseOff

\* set y = <operand>
RunSetLeaf == \E e \in Leaves : RunCall(<<SetVar(nY, e)>>)

\* set y = <operand> <op> <operand>
RunSetBin == \E e \in BinExprs : RunCall(<<SetVar(nY, e)>>)

NextExpr == RunSetLeaf \/ RunSetBin

SpecExpr == InitExpr /\ [][NextExpr]_vars

(* ------------------------------------------------------------------ *)
(* Properties of assignment expressions (SpecExpr)                     *)
(* ------------------------------------------------------------------ *)

\* The text of an operand of the menu after variable resolution.
OperandText(e) ==
  IF e.t = "Value" /\ e.s \in DOMAIN variables THEN variables[e.s] ELSE e.s

\* The last call was `set y = <l> <op> <r>` for an operator of ops.
RanBin(ops) ==
  /\ Len(last) = 1
  /\ last[1].t = "SetVar"
  /\ last[1].expr.t = "BinaryOp"
  /\ last[1].expr.op \in ops

LeftText == OperandText(last[1].expr.l)
RightText == OperandText(last[1].expr.r)
BothNumbers == IsF64(Trim(LeftText)) /\ IsF64(Trim(RightText))

\* The order of two numbers (neither NaN) and of two texts without their case.
NumLess(a, b) == a.q < b.q
TextLessNoCase(a, b) == StrLess(ToLower(a), ToLower(b))

\* What `l op r` is for a comparison operator under a given "less than".
Compared(op, a, b, less(_, _)) ==
  CASE op = "Gt" -> less(b, a)
    [] op = "Lt" -> less(a, b)
    [] op = "Ge" -> ~less(a, b)
    [] op = "Le" -> ~less(b, a)

\* C3: in an assignment, the comparison operators compare numerically when
\* both operands parse as numbers and otherwise as text without regard to
\* case, and "true" or "false" is stored accordingly (NaN operands are left
\* aside).  The code compares the trimmed operand texts byte by byte in both
\* cases.
C3_ComparisonNumericElseCaseInsensitive ==
  (pc = "ran" /\ RanBin({"Gt", "Lt", "Ge", "Le"})) =>
    LET op == last[1].expr.op
        a == Trim(LeftText)
        b == Trim(RightText)
    IN IF BothNumbers
       THEN (~F64Val(a).nan /\ ~F64Val(b).nan) =>
              variables[nY] = FmtBool(Compared(op, F64Val(a), F64Val(b), NumLess))
       ELSE variables[nY] = FmtBool(Compared(op, a, b, TextLessNoCase))

\* C9: an assignment of an arithmetic expression never aborts the run: a
\* value is stored under the name.  The code aborts on a modulo by zero.
C9_AssignNeverAborts ==
  (pc # "idle" /\ RanBin({"Add", "Sub", "Mul", "Div", "Mod"})) =>
    /\ pc = "ran"
    /\ nY \in DOMAIN variables

\* C10: `a + b` is the numeric sum when both operand texts (trimmed) parse as
\* numbers, quoted or not, and otherwise the two operand texts joined in
\* order; the assignment stores it trimmed.
C10_AddSumOrConcat ==
  (pc = "ran" /\ RanBin({"Add"})) =>
    IF BothNumbers
    THEN /\ IsF64(variables[nY])
         /\ F64Val(variables[nY]) = FAdd(F64Val(Trim(LeftText)), F64Val(Trim(RightText)))
    ELSE variables[nY] = Trim(LeftText \o RightText)

\* A quoted "4" plus 2 has been stored as 6.
C10_WitnessSum ==
  /\ pc = "ran"
  /\ RanBin({"Add"})
  /\ last[1].expr.l = StringLit(<<"4">>)
  /\ last[1].expr.r = Value(<<"2">>)
  /\ variables[nY] = <<"6">>

(* ------------------------------------------------------------------ *)
(* tokenize, line by line (SpecLex)                                    *)
(* ------------------------------------------------------------------ *)

\* The number of lines of an input.
MaxLines == 3

\* The indentation widths of the lines.
Widths == {0, 2, 4}

Spaces(n) == [i \in 1..n |-> " "]

\* The lines without their indentation: a word, a condition header, a blank
\* line, a comment-only line, a line with a quote that is never closed.
LineBodies ==
  { <<"a">>, <<"i", "f", " ", "\"", "b", "\"", " ", "!", "=", " ", "1", ".", "5", ":", " ", "/", "/", " ", "c">>, <<>>, <<"#", " ", "c">>, <<"\"", "a">> }

LineMenu == {Spaces(n) \o b : n \in Widths, b \in LineBodies}

InitLex ==
  /\ variables = NoVars
  /\ output = <<>>
  /\ ai_model = NoModel
  /\ macro_model = NoModel
  /\ pc = "idle"
  /\ last = <<>>
  /\ calls = <<>>
  /\ indent_stack = <<0>>
  /\ tokens = <<>>
  /\ line_idx = 0
  /\ raw_line = <<>>
  /\ lex_pc = "lines"
  /\ ParseOff

\* tokenize after the body of its loop has ended as ls for the line raw.
AfterLine(ls, raw) ==
  /\ indent_stack' = ls.stack
  /\ tokens' = ls.toks
  /\ lex_pc' = IF ls.ok THEN "lines" ELSE "failed"
  /\ line_idx' = line_idx + 1
  /\ raw_line' = raw
  /\ UNCHANGED <<runVars, parseVars, input, dsl, hostVars>>

\* One iteration of the loop over the lines of the input.
LexLine ==
  /\ lex_pc = "lines"
  /\ line_idx < MaxLines
  /\ \E raw \in LineMenu :
       AfterLine(LineStep([stack |-> indent_stack, toks |-> tokens, ok |-> TRUE], raw), raw)

\* tokenize with the levels closed as cl.
AfterClose(cl) ==
  /\ indent_stack' = cl.stack
  /\ tokens' = cl.toks
  /\ lex_pc' = "done"
  /\ UNCHANGED <<line_idx, raw_line, runVars, parseVars, input, dsl, hostVars>>

\* The input has no more lines: the remaining levels are closed and Ok(tokens)
\* is returned.
LexClose ==
  /\ lex_pc = "lines"
  /\ AfterClose(CloseLevels(indent_stack, tokens))

NextLex == LexLine \/ LexClose

SpecLex == InitLex /\ [][NextLex]_vars

(* ------------------------------------------------------------------ *)
(* Properties of tokenize (SpecLex)                                    *)
(* ------------------------------------------------------------------ *)

\* The number of tokens of variant t among the first n tokens of toks.
CountTok(toks, t, n) == Cardinality({i \in 1..n : toks[i].t = t})

\* Block-ends never outnumber block-starts in a prefix, and match them in all.
Balanced(toks) ==
  /\ \A n \in 0..Len(toks) : CountTok(toks, "Dedent", n) <= CountTok(toks, "Indent", n)
  /\ CountTok(toks, "Dedent", Len(toks)) = CountTok(toks, "Indent", Len(toks))

\* The text of a line without its comment and the surrounding blanks.
LineText(raw) == Trim(SubSeq(raw, 1, CutPos(raw, 1, FALSE) - 1))

\* A step of the loop over the lines that did not end in an error.
LineDone == lex_pc = "lines" /\ lex_pc' = "lines" /\ line_idx' = line_idx + 1

\* C4: when tokenize succeeds the token stream holds as many Dedent as Indent
\* tokens and no prefix holds more Dedent than Indent tokens; a blank or
\* comment-only line adds neither.
C4_IndentDedentBalanced ==
  [][ /\ lex_pc' = "done" => Balanced(tokens')
      /\ (LineDone /\ LineText(raw_line') = <<>>) =>
           /\ CountTok(tokens', "Indent", Len(tokens')) = CountTok(tokens, "Indent", Len(tokens))
           /\ CountTok(tokens', "Dedent", Len(tokens')) = CountTok(tokens, "Dedent", Len(tokens))
    ]_vars

\* tokenize has succeeded on three lines, the last an indented comment-only
\* line, with two blocks opened and closed at the end of the input.
C4_WitnessTwoLevelsClosed ==
  /\ lex_pc = "done"
  /\ line_idx = 3
  /\ LineText(raw_line) = <<>>
  /\ raw_line # <<>>
  /\ CountTok(tokens, "Indent", Len(tokens)) = 2
  /\ tokens[Len(tokens)].t = "Dedent"
  /\ tokens[Len(tokens) - 1].t = "Dedent"

\* A line of code whose indentation is below the top of the stack.
DedentLine ==
  /\ LineDone
  /\ LineText(raw_line') # <<>>
  /\ LeadingSpaces(raw_line') < indent_stack[Len(indent_stack)]

OnStack(w, stack) == \E i \in 1..Len(stack) : stack[i] = w

DedentsAdded ==
  CountTok(tokens', "Dedent", Len(tokens')) - CountTok(tokens, "Dedent", Len(tokens))

\* C5 as stated: a line indented less than the top of the stack, by a width
\* that is on no level of the stack, emits no Dedent.
C5_NoDedentOnMismatch ==
  [][ (DedentLine /\ ~OnStack(LeadingSpaces(raw_line'), indent_stack)) => DedentsAdded = 0 ]_vars

\* C5, amended: a line indented less than the top of the stack pops every level
\* wider than its indentation and emits one Dedent for each, whether or not
\* its width is on the stack; it pushes nothing and emits no Indent.
C5_DedentPerPoppedLevel ==
  [][ DedentLine =>
        LET w == LeadingSpaces(raw_line')
            kept == {i \in 1..Len(indent_stack) : indent_stack[i] <= w}
        IN /\ indent_stack' = SubSeq(indent_stack, 1, Cardinality(kept))
           /\ DedentsAdded = Len(indent_stack) - Cardinality(kept)
           /\ DedentsAdded >= 1
           /\ CountTok(tokens', "Indent", Len(tokens')) = CountTok(tokens, "Indent", Len(tokens))
    ]_vars

\* A line of width 2 has met the stack <<0, 4>>: the level 4 is popped, one
\* Dedent is emitted and 2 is not pushed.
C5_WitnessMismatch ==
  /\ lex_pc = "lines"
  /\ line_idx = 2
  /\ LeadingSpaces(raw_line) = 2
  /\ LineText(raw_line) # <<>>
  /\ indent_stack = <<0>>
  /\ CountTok(tokens, "Indent", Len(tokens)) = 1
  /\ CountTok(tokens, "Dedent", Len(tokens)) = 1

(* ------------------------------------------------------------------ *)
(* parse, iteration by iteration (SpecParse)                           *)
(* ------------------------------------------------------------------ *)

MaxChunks == 2

qA == <<"\"", "a", "\"">>
tX == TString(<<"x">>)
tNL == Tok("Newline")

\* neuro "a"
NeuroLine == <<Tok("Neuro"), TString(qA), tNL>>

\* Pieces of token streams: whole statements, blocks with and without their
\* Dedent, headers that break off, and tokens that start no statement.
ChunkMenu ==
  { NeuroLine,
    <<Tok("Set"), tX, Tok("EqualsAssign"), TNumber(<<"1">>), Tok("Plus"), TNumber(<<"2">>), tNL>>,
    <<Tok("Set"), tX, TString(<<"t", "o">>), TNumber(<<"5">>), tNL>>,
    <<Tok("Set"), tX, Tok("From"), Tok("AI"), Tok("Colon"), TString(qA), tNL>>,
    <<Tok("AI"), Tok("Colon"), TString(<<"m", ".", "o", "n", "n", "x">>), tNL>>,
    <<Tok("Macro"), Tok("From"), Tok("AI"), Tok("Colon"), TString(<<"a">>), TNumber(<<"1">>), tNL>>,
    <<Tok("If"), tX, Tok("Equals"), TString(qA), Tok("Colon"), tNL, Tok("Indent")>>
      \o NeuroLine \o <<Tok("Dedent")>>,
    <<Tok("If"), tX, Tok("GreaterThan"), TNumber(<<"1">>), Tok("Colon"), tNL, Tok("Indent"),
      Tok("RParen"), tNL, Tok("Comment"), tNL>> \o NeuroLine,
    <<Tok("Elif"), tX, Tok("NotEquals"), TString(<<"y">>), Tok("Colon"), tNL, Tok("Indent")>>
      \o NeuroLine \o <<Tok("Dedent")>>,
    <<Tok("Else"), Tok("Colon"), tNL, Tok("Indent")>> \o NeuroLine \o <<Tok("Dedent")>>,
    <<Tok("If"), tX, Tok("Colon"), tNL>>,
    <<Tok("Comment"), tNL>>,
    <<Tok("RParen")>>,
    <<Tok("Dedent")>>,
    <<Tok("Set"), tX, Tok("EqualsAssign"), Tok("LParen"), TNumber(<<"1">>)>> }

RECURSIVE Flatten(_)
Flatten(ss) == IF ss = <<>> THEN <<>> ELSE ss[1] \o Flatten(Tail(ss))

TokenMenu == {Flatten(c) : c \in UNION {[1..n -> ChunkMenu] : n \in 1..MaxChunks}}

\* parse(tokens) has been called: ast is empty, it is at the first token.
InitParse ==
  /\ variables = NoVars
  /\ output = <<>>
  /\ ai_model = NoModel
  /\ macro_model = NoModel
  /\ pc = "idle"
  /\ last = <<>>
  /\ calls = <<>>
  /\ LexOff
  /\ input \in TokenMenu
  /\ dsl = <<>>
  /\ HostOff
  /\ it = input
  /\ ast = <<>>
  /\ parse_pc = "loop"

\* The end of one iteration of the loop of parse.
AfterStmt(p) ==
  /\ it' = p.it
  /\ ast' = p.ast
  /\ UNCHANGED <<parse_pc, input, dsl, runVars, lexVars, hostVars>>

\* One iteration of while it.peek().is_some().
ParseIter ==
  /\ parse_pc = "loop"
  /\ it # <<>>
  /\ AfterStmt(ParseStmt(parse_statement(it), ast))

\* The loop ends and parse returns ast.
ParseReturn ==
  /\ parse_pc = "loop"
  /\ it = <<>>
  /\ parse_pc' = "done"
  /\ UNCHANGED <<it, ast, input, dsl, runVars, lexVars, hostVars>>

NextParse == ParseIter \/ ParseReturn

SpecParse == InitParse /\ [][NextParse]_vars

(* ------------------------------------------------------------------ *)
(* Properties of parse (SpecParse)                                     *)
(* ------------------------------------------------------------------ *)

\* The tokens with which parse_statement starts a statement.
StatementStarts == {"AI", "Neuro", "Set", "Macro", "If", "Comment"}

NodeKinds == {"AIModel", "Neuro", "SetVar", "SetVarFromAI", "MacroCall", "IfStatement"}

\* A step of the loop of parse.  An iteration consumes at least one token and
\* keeps or extends ast; on a token that starts no statement it drops that
\* token only.  With no token left the loop ends and ast is returned.
IterationConsumes ==
  /\ parse_pc = "loop"
  /\ IF it # <<>>
     THEN /\ Len(it') < Len(it)
          /\ parse_pc' = "loop"
          /\ ast' = ast \/ (Len(ast') = Len(ast) + 1 /\ SubSeq(ast', 1, Len(ast)) = ast)
          /\ PeekT(it) \notin StatementStarts => (it' = Tail(it) /\ ast' = ast)
     ELSE parse_pc' = "done" /\ ast' = ast /\ it' = it

\* The iterator after one iteration of the loop of parse_block is shorter
\* than s.
BlockConsumes(s, i) == Len(i.it) < Len(s)

Suffix(s, k) == SubSeq(s, k, Len(s))

\* parse_block only ever runs on a suffix of the tokens: from each of them
\* that has a token left, an iteration of its loop consumes at least one.
BlockIterationsConsume ==
  \A k \in 1..Len(input) : BlockConsumes(Suffix(input, k), BlockIter(Suffix(input, k), <<>>))

\* The iterator after one iteration of the loop of parse is shorter than s.
ParseConsumes(s, p) == Len(p.it) < Len(s)

\* The same from each suffix, for the loop of parse: no iteration leaves the
\* iterator where it was.
ParseIterationsConsume ==
  \A k \in 1..Len(input) :
    ParseConsumes(Suffix(input, k), ParseStmt(parse_statement(Suffix(input, k)), <<>>))

\* In the loop the iterator is a suffix of the tokens, and what parse returns
\* is a list of statements.
ReturnsStatements ==
  /\ parse_pc \in {"loop", "done"}
  /\ \E k \in 1..Len(input) + 1 : it = Suffix(input, k)
  /\ parse_pc = "done" => it = <<>>
  /\ \A i \in 1..Len(ast) : ast[i].t \in NodeKinds

\* C8: parse terminates on every finite token sequence and returns a list of
\* statements.  The number of tokens left is the variant: every iteration of
\* the loop of parse, and every iteration of the loop of parse_block entered
\* with a token left, consumes at least one token, and the loop of parse ends
\* when none is left.  A token that starts no recognized statement is skipped,
\* with no error and no node.
C8_ParseTerminates ==
  /\ [][IterationConsumes]_vars
  /\ [](ParseIterationsConsume /\ BlockIterationsConsume /\ ReturnsStatements)

\* parse has returned an If statement from tokens that hold a stray closing
\* parenthesis inside its block and another one after it.
C8_WitnessSkipped ==
  /\ parse_pc = "done"
  /\ Len(ast) = 1
  /\ ast[1].t = "IfStatement"
  /\ Len(ast[1].body) = 1
  /\ input[8].t = "RParen"
  /\ input[Len(input)].t = "RParen"

(* ------------------------------------------------------------------ *)
(* A script from text to effect: tokenize, parse, run, as the closure  *)
(* of engine::analyze calls them (SpecAnalyze)                         *)
(* ------------------------------------------------------------------ *)

sp == <<" ">>

\* The operands of a condition, as written: quoted texts, a quoted model path,
\* a bare identifier, a number.
qBad == <<"\"", "b", "a", "d", "\"">>
qToxic == <<"\"", "T", "o", "x", "i", "c", "\"">>
qPath == <<"\"", "m", ".", "o", "n", "n", "x", "\"">>
wMood == <<"m", "o", "o", "d">>
CondOperands == {qBad, qToxic, qPath, wMood, <<"5">>}

CondOps == {<<"=", "=">>, <<"!", "=">>, <<">">>, <<"<", "=">>}

\* if <l> <op> <r>:
IfLine(l, op, r) == <<"i", "f", " ">> \o l \o sp \o op \o sp \o r \o <<":">>

BodyLine == <<" ", " ", " ", " ", "n", "e", "u", "r", "o", " ", "\"", "y", "e", "s", "\"">>

\* What comes before the condition: nothing, the variable bound, the
\* classifier loaded and the variable bound.
Prefixes ==
  { <<>>, <<<<"s", "e", "t", " ", "m", "o", "o", "d", " ", "=", " ", "\"", "b", "a", "d", "\"">>>>, <<<<"A", "I", ":", " ", "\"", "t", "o", "x", "i", "c", ".", "o", "n", "n", "x", "\"">>, <<"s", "e", "t", " ", "m", "o", "o", "d", " ", "=", " ", "\"", "b", "a", "d", "\"">>>> }

IfScripts ==
  {p \o <<IfLine(l, op, r), BodyLine>> :
     p \in Prefixes, l \in CondOperands, op \in CondOps, r \in CondOperands}

\* The right sides of an assignment, as written.
SetOperands == {<<"5">>, <<"\"", "h", "i", "\"">>, <<"1", " ", "+", " ", "2">>, <<"y">>}

SetEq(e) == <<"s", "e", "t", " ", "x", " ", "=", " ">> \o e
SetTo(e) == <<"s", "e", "t", " ", "x", " ", "t", "o", " ">> \o e

NeuroX == <<"n", "e", "u", "r", "o", " ", "x">>

SetScripts ==
  UNION {{<<SetEq(e)>>, <<SetTo(e)>>, <<SetEq(e), NeuroX>>, <<SetTo(e), NeuroX>>} :
           e \in SetOperands}

\* A line the lexer rejects.
BadScripts == {<<<<"s", "e", "t", " ", "x", " ", "=", " ", "\"", "h", "i">>>>}

AiNo == <<"A", "I", ":", " ", "\"", "n", "o", ".", "o", "n", "n", "x", "\"">>
AiToxic == <<"A", "I", ":", " ", "\"", "t", "o", "x", "i", "c", ".", "o", "n", "n", "x", "\"">>
NeuroBefore == <<"n", "e", "u", "r", "o", " ", "\"", "b", "e", "f", "o", "r", "e", "\"">>
NeuroAfter == <<"n", "e", "u", "r", "o", " ", "\"", "a", "f", "t", "e", "r", "\"">>

\* Scripts that select a model: one that loads, and one that is not there, at
\* the start and behind an output or an assignment.
ModelScripts ==
  { <<AiToxic, NeuroAfter>>,
    <<AiNo, NeuroAfter>>,
    <<NeuroBefore, AiNo, NeuroAfter>>,
    <<SetEq(<<"5">>), AiNo, SetEq(<<"y">>), NeuroX>> }

\* Scripts whose output is blank lines only, and one with two lines of text.
NeuroEmpty == <<"n", "e", "u", "r", "o", " ", "\"", "\"">>
NeuroSpace == <<"n", "e", "u", "r", "o", " ", "\"", " ", "\"">>

BlankScripts ==
  { <<NeuroEmpty>>, <<NeuroSpace>>, <<NeuroEmpty, NeuroEmpty>>,
    <<NeuroEmpty, NeuroAfter>>, <<NeuroBefore, NeuroAfter>> }

\* Conditionals with a header parse_bool_expr rejects: no operator, = in place
\* of ==, and the same in an elif behind a sound if.
IfMood == <<"i", "f", " ", "m", "o", "o", "d", ":">>
IfMoodIs == <<"i", "f", " ", "m", "o", "o", "d", " ", "=", " ", "\"", "b", "a", "d", "\"", ":">>
ElifMood == <<"e", "l", "i", "f", " ", "m", "o", "o", "d", ":">>

BadIfScripts ==
  { <<IfMood, BodyLine>>,
    <<IfMoodIs, BodyLine>>,
    <<IfLine(<<"5">>, <<">">>, <<"5">>), BodyLine, ElifMood, BodyLine>> }

ScriptMenu ==
  IfScripts \cup SetScripts \cup BadScripts \cup ModelScripts \cup BlankScripts
    \cup BadIfScripts

\* A new interpreter, and the normalized script handed to tokenize.
InitAnalyze ==
  /\ variables = NoVars
  /\ output = <<>>
  /\ ai_model = NoModel
  /\ macro_model = NoModel
  /\ pc = "idle"
  /\ last = <<>>
  /\ calls = <<>>
  /\ LexOff
  /\ it = <<>>
  /\ ast = <<>>
  /\ parse_pc = "off"
  /\ input \in ScriptMenu
  /\ dsl = <<>>
  /\ HostOff

\* tokenize has returned r: Err ends analyze.
Lexed(r) ==
  /\ tokens' = r.toks
  /\ lex_pc' = IF r.ok THEN "done" ELSE "failed"
  /\ result' = IF r.ok THEN result ELSE ResultErr(LexError)
  /\ UNCHANGED <<indent_stack, line_idx, raw_line, runVars, parseVars, input, dsl, norm, label, srvVars>>

\* let tokens = tokenize(&norm)?
AnalyzeTokenize ==
  /\ lex_pc = "off"
  /\ Lexed(tokenize(input))

\* let ast = parse(tokens)
AnalyzeParse ==
  /\ lex_pc = "done"
  /\ parse_pc = "off"
  /\ ast' = parse(tokens)
  /\ parse_pc' = "done"
  /\ UNCHANGED <<it, runVars, lexVars, input, dsl, hostVars>>

\* interpreter.run(ast)
AnalyzeRun ==
  /\ parse_pc = "done"
  /\ pc = "idle"
  /\ Returned(run(Self, ast), ast)

\* Ok(interpreter.take_output()): the closure has returned.
AnalyzeOk ==
  /\ parse_pc = "done"
  /\ pc = "ran"
  /\ pc' = "ok"
  /\ output' = <<>>
  /\ result' = Taken(JoinLines(output))
  /\ UNCHANGED <<variables, ai_model, macro_model, last, calls, lexVars, parseVars, input, dsl, norm, label, srvVars>>

\* Err(payload) of catch_unwind: the panic has unwound out of the closure,
\* and analyze returns Err with the runtime error message.
AnalyzeErr ==
  /\ parse_pc = "done"
  /\ pc = "aborted"
  /\ pc' = "err"
  /\ result' = ResultErr(RuntimeError)
  /\ UNCHANGED <<interp, last, calls, lexVars, parseVars, input, dsl, norm, label, srvVars>>

NextAnalyze == AnalyzeTokenize \/ AnalyzeParse \/ AnalyzeRun \/ AnalyzeOk \/ AnalyzeErr

SpecAnalyze == InitAnalyze /\ [][NextAnalyze]_vars

(* ------------------------------------------------------------------ *)
(* Properties of scripts (SpecAnalyze)                                 *)
(* ------------------------------------------------------------------ *)

\* The operand is written between quotes; it is written as a bare identifier.
WrittenQuoted(o) == StartsWith(o, <<"\"">>)
WrittenBare(o) == IsAlpha(o[1])

\* The script ends with the condition l op r and its body.
EndsWithIf(l, op, r) ==
  /\ Len(input) >= 2
  /\ input[Len(input) - 1] = IfLine(l, op, r)

\* The condition of the If statement parsed last.
LastCondition == ast[Len(ast)].condition

ClassifierKinds == {"Equals", "NotEquals"}
VariableKinds == {"EqualsVar", "NotEqualsVar", "VarEqualsVar", "VarNotEqualsVar"}

\* C6: for an atom with == or !=, the node is classifier-backed (Equals,
\* NotEquals) only when both operands are quoted literals; when an operand, on
\* either side, is a bare identifier, the node is a variable comparison.
C6_ClassifierOnlyBetweenLiterals ==
  \A l \in CondOperands, op \in {<<"=", "=">>, <<"!", "=">>}, r \in CondOperands :
    (parse_pc = "done" /\ EndsWithIf(l, op, r)) =>
      /\ ast # <<>>
      /\ ast[Len(ast)].t = "IfStatement"
      /\ LastCondition.t \in ClassifierKinds => (WrittenQuoted(l) /\ WrittenQuoted(r))
      /\ (WrittenBare(l) \/ WrittenBare(r)) => LastCondition.t \in VariableKinds

\* The script AI: "toxic.onnx" / set mood = "bad" / if "bad" == mood: has run:
\* the condition was parsed as Equals("bad", "mood"), the classifier was asked
\* about "bad", its label was compared with the text mood, and the body did
\* not run although mood holds bad.
C6_LiteralLeftOfVariable ==
  /\ pc = "ran"
  /\ Len(input) = 4
  /\ input[3] = IfLine(qBad, <<"=", "=">>, wMood)
  /\ ast[3].condition = BAtom("Equals", <<"b", "a", "d">>, wMood)
  /\ variables[wMood] = <<"b", "a", "d">>
  /\ calls = <<<<"b", "a", "d">>>>
  /\ output = <<>>

\* The tokens and the statements of the one-line script set x = <e>.
EqTokens(e) == tokenize(<<SetEq(e)>>).toks
EqAst(e) == parse(EqTokens(e))

\* The script is the line alone, or the line followed by neuro x.
ScriptOf(line) == input \in {<<line>>, <<line, NeuroX>>}

\* C7: set NAME to EXPR is accepted as an assignment: tokenizing and parsing
\* it yields the Assign node of set NAME = EXPR, and running it binds NAME.
C7_SetToIsAssign ==
  \A e \in SetOperands :
    ScriptOf(SetTo(e)) =>
      /\ parse_pc = "done" => (ast # <<>> /\ ast[1] = EqAst(e)[1])
      /\ pc = "ran" => nX \in DOMAIN variables

\* The statement read from the line set x <sign> <e>, when there is one: the
\* tokens hold the name and the sign, and the node is SetVar(x, expr) with expr
\* parsed from the tokens behind the sign.
AssignOf(toks, nodes) ==
  /\ nodes # <<>>
  /\ nodes[1].t = "SetVar"
  /\ nodes[1].name = nX
  /\ toks[3].t = "EqualsAssign"
  /\ parse_expr(SubSeq(toks, 4, Len(toks))).some
  /\ nodes[1].expr = parse_expr(SubSeq(toks, 4, Len(toks))).v

\* C7 (amended): only the sign = makes an assignment.  set x = <e> yields one
\* SetVar node for x and running it binds x, so that neuro x prints the value.
\* In set x to <e> the word to is a bare String token; the line yields no
\* node, its tokens are dropped without an error, running the script leaves x
\* unbound, and neuro x prints the name.
C7_OnlyEqualsAssigns ==
  \A e \in SetOperands :
    /\ ScriptOf(SetEq(e)) =>
         /\ lex_pc \in {"off", "done"}
         /\ parse_pc = "done" => AssignOf(tokens, ast)
         /\ pc = "ran" =>
              /\ nX \in DOMAIN variables
              /\ input = <<SetEq(e), NeuroX>> => output = <<variables[nX]>>
    /\ ScriptOf(SetTo(e)) =>
         /\ lex_pc \in {"off", "done"}
         /\ lex_pc = "done" => tokens[3] = TString(<<"t", "o">>)
         /\ parse_pc = "done" => \A i \in 1..Len(ast) : ast[i].t = "Neuro"
         /\ pc # "aborted"
         /\ pc = "ran" =>
              /\ variables = NoVars
              /\ input = <<SetTo(e), NeuroX>> => output = <<nX>>

\* set x to 5 / neuro x has run: x is unbound and the name was printed.
C7_WitnessSetTo ==
  /\ input = <<SetTo(<<"5">>), NeuroX>>
  /\ pc = "ran"
  /\ ast = <<Neuro(nX)>>
  /\ output = <<nX>>
  /\ nX \notin DOMAIN variables

(* ------------------------------------------------------------------ *)
(* Conditionals: one If statement, over a menu of conditions, of       *)
(* branches and of interpreters (SpecCond)                             *)
(* ------------------------------------------------------------------ *)

MaxElifs == 2

\* Conditions: on the variable mood, on the classifier (the text bad is the
\* one the Toxic model labels Toxic), and two that do not read the state.
MoodIsBad == BAtom("EqualsVar", wMood, <<"b", "a", "d">>)
BadIsToxic == BAtom("Equals", <<"b", "a", "d">>, <<"T", "o", "x", "i", "c">>)
FineIsNotToxic == BAtom("NotEquals", <<"f", "i", "n", "e">>, <<"T", "o", "x", "i", "c">>)
FiveOverThree == BAtom("Greater", <<"5">>, <<"3">>)
FiveUnderThree == BAtom("Less", <<"5">>, <<"3">>)

Atoms == {MoodIsBad, BadIsToxic, FineIsNotToxic, FiveOverThree, FiveUnderThree}
ElifConds == {MoodIsBad, BadIsToxic, FiveUnderThree}

\* The blocks: each prints its own text; the body of the if may rebind mood
\* first, the else block binds x first.
IfBodies == {<<Neuro(<<"\"", "i", "f", "\"">>)>>, <<SetVar(wMood, StringLit(<<"o", "k">>)), Neuro(<<"\"", "i", "f", "\"">>)>>}
ElifBody(i) == <<Neuro(<<"\"", "e", NatToStr(i)[1], "\"">>)>>
ElseBodies == {NoElse, SomeElse(<<SetVar(nX, StringLit(<<"z">>)), Neuro(<<"\"", "e", "l", "s", "e", "\"">>)>>)}

ElifMenu ==
  UNION {{[i \in 1..n |-> [c |-> cs[i], blk |-> ElifBody(i)]] : cs \in [1..n -> ElifConds]} :
           n \in 0..MaxElifs}

BranchNodes ==
  {IfStatement(c, b, es, el) : c \in Atoms, b \in IfBodies, es \in ElifMenu, el \in ElseBodies}

\* if l and r: / if l or r: , and one chain of three.
AndOrConds ==
  {BAnd(l, r) : l \in Atoms, r \in Atoms} \cup {BOr(l, r) : l \in Atoms, r \in Atoms}
    \cup {BOr(BAnd(MoodIsBad, BadIsToxic), FineIsNotToxic)}

AndOrNodes == {IfStatement(c, <<Neuro(<<"\"", "i", "f", "\"">>)>>, <<>>, NoElse) : c \in AndOrConds}

\* An interpreter with or without mood bound, and with no classifier, the
\* Toxic classifier, or a classifier whose predictions fail.
InitCond ==
  /\ variables \in {NoVars, Insert(NoVars, wMood, <<"b", "a", "d">>)}
  /\ output = <<>>
  /\ ai_model \in {NoModel, SomeModel(PathToxic), SomeModel(PathBroken)}
  /\ macro_model = NoModel
  /\ pc = "idle"
  /\ last = <<>>
  /\ calls = <<>>
  /\ LexOff
  /\ ParseOff

RunBranches == \E node \in BranchNodes : RunCall(<<node>>)

RunAndOr == \E node \in AndOrNodes : RunCall(<<node>>)

NextCond == RunBranches \/ RunAndOr

SpecCond == InitCond /\ [][NextCond]_vars

(* ------------------------------------------------------------------ *)
(* Properties of conditionals (SpecCond)                               *)
(* ------------------------------------------------------------------ *)

\* The value of the condition c before the statement runs.
Holds(c) == eval_bool(variables, ai_model, c).v

\* The positions of the elif branches whose condition holds.
ElifsHolding(node) == {i \in 1..Len(node.elif_blocks) : Holds(node.elif_blocks[i].c)}

\* The statements the Conditional has to execute: those of body when the
\* condition holds, else those of the first elif branch whose condition holds,
\* else those of the else body when there is one, else none.
Selected(node) ==
  IF Holds(node.condition) THEN node.body
  ELSE IF ElifsHolding(node) # {} THEN node.elif_blocks[Min(ElifsHolding(node))].blk
  ELSE IF node.else_body.some THEN node.else_body.blk
  ELSE <<>>

\* The Environment and the output buffer after the step are those that the
\* statements blk, run alone, leave.
LeavesAs(blk, r) == variables' = r.variables /\ output' = r.output

\* A step that runs the Conditional node.
RunsConditional(node) == pc = "idle" /\ pc' = "ran" /\ last' = <<node>>

\* C1: when run executes a Conditional, the statements executed are exactly
\* those of body if the condition is true, otherwise those of the first elif
\* branch whose condition is true, otherwise those of the else body if there
\* is one; at most one block prints, and when no branch matches and there is
\* no else the Environment and the output buffer are unchanged.
C1_OneBranchRuns ==
  [][\A node \in BranchNodes :
       RunsConditional(node) =>
         /\ LeavesAs(Selected(node), run(Self, Selected(node)))
         /\ Len(output') <= 1
         /\ Selected(node) = <<>> => (variables' = variables /\ output' = output)]_vars

\* With mood bound to bad, an If whose condition and first elif are false,
\* whose second elif is true and which has an else block has printed the text
\* of the second elif, and only that.
C1_WitnessSecondElif ==
  /\ pc = "ran"
  /\ Len(last) = 1
  /\ last[1].condition = FiveUnderThree
  /\ Len(last[1].elif_blocks) = 2
  /\ last[1].elif_blocks[1].c = FiveUnderThree
  /\ last[1].elif_blocks[2].c = MoodIsBad
  /\ last[1].else_body.some
  /\ variables = Insert(NoVars, wMood, <<"b", "a", "d">>)
  /\ output = <<<<"e", "2">>>>

\* The condition of the statement that has run is And or Or with a
\* classifier-backed right operand r, and a classifier is loaded.
RanAndOr ==
  /\ pc = "ran"
  /\ last[1].condition.t \in {"And", "Or"}
  /\ last[1].condition.l.t \notin {"And", "Or"}
  /\ last[1].condition.r.t \in ClassifierKinds
  /\ ai_model.some

\* The number of times the text p was handed to predict.
TimesAsked(p) == Cardinality({i \in 1..Len(calls) : calls[i] = p})

\* What evaluating the atom a alone hands to predict, and its value.
AtomCalls(a) == eval_bool(variables, ai_model, a).calls
AtomValue(a) == eval_bool(variables, ai_model, a).v

\* C2: And(l, r) and Or(l, r) always evaluate both l and r: when r is
\* classifier-backed, the classifier is called for r whether l is true or
\* false.
C2_BothOperandsEvaluated ==
  RanAndOr => calls = AtomCalls(last[1].condition.l) \o AtomCalls(last[1].condition.r)

\* C2 (amended): And and Or evaluate l first and short-circuit: the
\* classifier is called for a classifier-backed r exactly when l is true under
\* And and exactly when l is false under Or; otherwise only the calls of l are
\* made.
C2_RightOnlyWhenNeeded ==
  RanAndOr =>
    LET c == last[1].condition
    IN IF (c.t = "And") = AtomValue(c.l)
       THEN calls = AtomCalls(c.l) \o AtomCalls(c.r)
       ELSE calls = AtomCalls(c.l)

\* if 5 < 3 and "bad" == "Toxic": has run with the Toxic classifier loaded,
\* and the classifier was not called.
C2_WitnessSkipped ==
  /\ RanAndOr
  /\ last[1].condition = BAnd(FiveUnderThree, BadIsToxic)
  /\ ai_model = SomeModel(PathToxic)
  /\ calls = <<>>
  /\ output = <<>>

(* ------------------------------------------------------------------ *)
(* A session: one interpreter, one statement per call of analyze, the  *)
(* output taken after each call (SpecRun)                              *)
(* ------------------------------------------------------------------ *)

nA == <<"a">>
nB == <<"b">>
nC == <<"c">>

qYes == <<"\"", "y", "e", "s", "\"">>
qNo == <<"\"", "n", "o", "\"">>

\* if <c>: neuro "yes" else: neuro "no"
YesNo(c) == IfStatement(c, <<Neuro(qYes)>>, <<>>, SomeElse(<<Neuro(qNo)>>))

\* Comparisons between variables, and between a variable and a literal.
EqConds ==
  { BAtom("VarEqualsVar", nA, nB), BAtom("VarEqualsVar", nB, nA),
    BAtom("VarEqualsVar", nA, nA), BAtom("VarNotEqualsVar", nA, nB),
    BAtom("VarEqualsVar", nA, nC), BAtom("EqualsVar", nA, <<" ", "O", "K", " ">>),
    BAtom("NotEqualsVar", nA, <<" ", "O", "K", " ">>), BAtom("EqualsVar", nB, <<"o", " ", "k">>) }

EqNodes == {YesNo(c) : c \in EqConds}

\* set a = ..., set b = ...
AssignNodes ==
  { SetVar(nA, StringLit(<<"O", "K">>)), SetVar(nA, StringLit(<<" ", " ", "o", " ", "k", " ">>)),
    SetVar(nA, BinaryOp(Value(nB), "Add", StringLit(<<" ">>))),
    SetVar(nB, StringLit(<<" ", "o", "k", " ">>)), SetVar(nB, Value(nA)) }

\* neuro "hi", neuro a, neuro c
OutputNodes == {Neuro(<<"\"", "h", "i", "\"">>), Neuro(nA), Neuro(nC)}

\* set x from AI: " bad day ", set x from AI: fine, set x from AI: " m.onnx"
\* (a quoted prompt reaches the parser with its quotes, a model path without)
FromAINodes ==
  { SetVarFromAI(nX, <<"\"", " ", "b", "a", "d", " ", "d", "a", "y", " ", "\"">>), SetVarFromAI(nX, <<"f", "i", "n", "e">>),
    SetVarFromAI(nX, <<" ", "m", ".", "o", "n", "n", "x">>) }

\* AI: "..."
ModelNodes == {AIModelNode(PathToxic), AIModelNode(PathBroken), AIModelNode(PathMissing)}

StmtMenu == EqNodes \cup AssignNodes \cup OutputNodes \cup FromAINodes \cup ModelNodes

\* analyze on a script of one statement: interpreter.run(ast).
RunStmt == \E node \in StmtMenu : RunCall(<<node>>)

\* Scripts of two statements, the second an output or an assignment.
PairMenu ==
  {<<n1, n2>> : n1 \in {Neuro(<<"\"", "h", "i", "\"">>), SetVar(nA, StringLit(<<"O", "K">>))},
                n2 \in OutputNodes \cup AssignNodes}

RunPair == \E nodes \in PairMenu : RunCall(nodes)

\* The lines an aborted call may leave in the buffer before the session stops
\* sending scripts that abort behind an output.
MaxKept == 1

\* neuro "hi" and then the selection of a model that is not there: the call
\* aborts behind its first line.
RunAborting ==
  /\ Len(output) < MaxKept
  /\ RunCall(<<Neuro(<<"\"", "h", "i", "\"">>), AIModelNode(PathMissing)>>)

\* interpreter.take_output(), and analyze returns Ok.
TakeOutput ==
  /\ pc = "ran"
  /\ pc' = "idle"
  /\ output' = <<>>
  /\ last' = <<>>
  /\ calls' = <<>>
  /\ UNCHANGED <<variables, ai_model, macro_model, lexVars, parseVars, input, dsl, hostVars>>

\* catch_unwind: the panic is caught, analyze returns Err, and the session
\* goes on with the interpreter as the panic left it.
Caught ==
  /\ pc = "aborted"
  /\ pc' = "idle"
  /\ last' = <<>>
  /\ calls' = <<>>
  /\ UNCHANGED <<interp, lexVars, parseVars, input, dsl, hostVars>>

NextRun == RunStmt \/ RunPair \/ RunAborting \/ TakeOutput \/ Caught

SpecRun == InitInterp /\ [][NextRun]_vars

(* ------------------------------------------------------------------ *)
(* Properties of a session (SpecRun)                                   *)
(* ------------------------------------------------------------------ *)

\* The value an operand of a comparison stands for: the value of the variable
\* of that name, or the name itself.
Resolved(n) == IF n \in DOMAIN variables THEN variables[n] ELSE n

\* The positions of s that hold no whitespace.
Inked(s) == {i \in 1..Len(s) : s[i] # " "}

\* s without its leading and trailing whitespace.
Core(s) == IF Inked(s) = {} THEN <<>> ELSE SubSeq(s, Min(Inked(s)), Max(Inked(s)))

\* The same character, or the same ASCII letter in the two cases.
SameLetter(x, y) ==
  \/ x = y
  \/ IsAlpha(x) /\ IsAlpha(y) /\ Abs(Ord(x) - Ord(y)) = 32

\* Equal after trimming whitespace and ignoring ASCII case.
SameText(u, v) ==
  /\ Len(Core(u)) = Len(Core(v))
  /\ \A i \in 1..Len(Core(u)) : SameLetter(Core(u)[i], Core(v)[i])

\* What the comparison c has to give.
Expected(c) ==
  CASE c.t = "VarEqualsVar" -> SameText(Resolved(c.a), Resolved(c.b))
    [] c.t = "VarNotEqualsVar" -> ~SameText(Resolved(c.a), Resolved(c.b))
    [] c.t = "EqualsVar" -> SameText(Resolved(c.a), c.b)
    [] c.t = "NotEqualsVar" -> ~SameText(Resolved(c.a), c.b)

Swapped(c) == BAtom(c.t, c.b, c.a)

\* C11: in a conditional, == between variables or between a variable and a
\* literal is true exactly when the two resolved values are equal after
\* trimming whitespace and ignoring ASCII case, and != is its negation; the
\* comparison of a value with itself is true, and swapping the two variables
\* does not change the result.
C11_EqualityTrimsAndFoldsCase ==
  [][\A c \in EqConds :
       RunsConditional(YesNo(c)) =>
         /\ output' = output \o (IF Expected(c) THEN <<<<"y", "e", "s">>>> ELSE <<<<"n", "o">>>>)
         /\ variables' = variables
         /\ c.t \in {"VarEqualsVar", "VarNotEqualsVar"} => Holds(Swapped(c)) = Holds(c)
         /\ Holds(BAtom("VarEqualsVar", c.a, c.a))
         /\ ~Holds(BAtom("VarNotEqualsVar", c.a, c.a))]_vars

\* After set a = "OK" and set b = " ok ", if a == b: has printed yes.
C11_WitnessOkOk ==
  /\ pc = "ran"
  /\ last = <<YesNo(BAtom("VarEqualsVar", nA, nB))>>
  /\ DOMAIN variables = {nA, nB}
  /\ variables[nA] = <<"O", "K">>
  /\ variables[nB] = <<"o", "k">>
  /\ output = <<<<"y", "e", "s">>>>

\* No leading and no trailing whitespace.
Trimmed(s) == s = <<>> \/ (s[1] # " " /\ s[Len(s)] # " ")

\* C12: after any sequence of statements executed by an interpreter, every
\* value stored in the Environment has no leading and no trailing whitespace.
C12_StoredValuesTrimmed == \A n \in DOMAIN variables : Trimmed(variables[n])

\* set a = "  o k " has run: a holds the text without the outer blanks.
C12_WitnessTrimmed ==
  /\ pc = "ran"
  /\ last = <<SetVar(nA, StringLit(<<" ", " ", "o", " ", "k", " ">>))>>
  /\ nA \in DOMAIN variables
  /\ variables[nA] = <<"o", " ", "k">>

\* The interpreter in front of the last statement of the script nodes, which
\* starts in the current state.
Before(nodes) == run(Self, SubSeq(nodes, 1, Len(nodes) - 1))

\* A step that runs the script nodes to its end.
Runs(nodes) == pc = "idle" /\ pc' = "ran" /\ last' = nodes

\* The Environment after the step is that of st.
SameEnvironment(st) == variables' = st.variables

\* The Environment after the step is that of st except at name.
SameExceptAt(st, name) ==
  /\ DOMAIN variables' \ {name} = DOMAIN st.variables \ {name}
  /\ \A n \in DOMAIN variables' \ {name} : variables'[n] = st.variables[n]

\* The output buffer after the step is that of st with one line more.
OneLineMore(st) ==
  /\ Len(output') = Len(st.output) + 1
  /\ SubSeq(output', 1, Len(st.output)) = st.output

LastOf(nodes) == nodes[Len(nodes)]

\* The frame of the last statement of the script nodes.
FrameOf(nodes, st) ==
  /\ LastOf(nodes).t = "Neuro" => (SameEnvironment(st) /\ OneLineMore(st))
  /\ LastOf(nodes).t = "SetVar" =>
       (output' = st.output /\ SameExceptAt(st, LastOf(nodes).name))

\* C13: executing an Output statement leaves the Environment unchanged and
\* appends exactly one line to the output buffer; executing an Assign
\* statement leaves the output buffer unchanged and changes the Environment
\* only at the assigned name.
C13_OutputAndAssignFrames ==
  [][\A nodes \in PairMenu \cup {<<n>> : n \in OutputNodes \cup AssignNodes} :
       Runs(nodes) => FrameOf(nodes, Before(nodes))]_vars

\* neuro "hi" / neuro a has run with a bound: two lines, the second the value
\* of a, and a is still bound to it.
C13_WitnessSecondLine ==
  /\ pc = "ran"
  /\ last = <<Neuro(<<"\"", "h", "i", "\"">>), Neuro(nA)>>
  /\ nA \in DOMAIN variables
  /\ output = <<<<"h", "i">>, variables[nA]>>

\* The value AssignFromClassifier has to store for prompt: the trimmed label
\* when a classifier is active and its prediction succeeds, else the prompt
\* text, trimmed as every stored value is.
LabelOrPrompt(prompt) ==
  IF ai_model.some /\ predict(ai_model, prompt).ok
  THEN Core(predict(ai_model, prompt).v)
  ELSE Core(prompt)

\* C14: AssignFromClassifier(name, prompt) always binds name and never aborts
\* the run: to the trimmed predicted label when an active classifier exists
\* and predict succeeds, and to the prompt text both when no classifier is
\* active and when predict fails.
C14_FromAIAlwaysBinds ==
  [][\A node \in FromAINodes :
       (pc = "idle" /\ last' = <<node>>) =>
         /\ pc' = "ran"
         /\ node.name \in DOMAIN variables'
         /\ variables'[node.name] = LabelOrPrompt(node.prompt)
         /\ \A n \in DOMAIN variables \ {node.name} :
              n \in DOMAIN variables' /\ variables'[n] = variables[n]
         /\ output' = output]_vars

\* With a classifier whose predictions fail, set x from AI: " bad day " has
\* bound x to the prompt.
C14_WitnessPredictFails ==
  /\ pc = "ran"
  /\ last = <<SetVarFromAI(nX, <<"\"", " ", "b", "a", "d", " ", "d", "a", "y", " ", "\"">>)>>
  /\ ai_model = SomeModel(PathBroken)
  /\ calls = <<<<"\"", " ", "b", "a", "d", " ", "d", "a", "y", " ", "\"">>>>
  /\ nX \in DOMAIN variables
  /\ variables[nX] = <<"\"", " ", "b", "a", "d", " ", "d", "a", "y", " ", "\"">>

\* The statements of the parsed script in front of its first ModelSelect whose
\* model cannot be loaded.
Unloadable(node) == node.t = "AIModel" /\ ~AIModel_new(node.path).ok

FailsSomewhere == \E k \in DOMAIN ast : Unloadable(ast[k])

FirstFailing == Min({k \in DOMAIN ast : Unloadable(ast[k])})

\* The numbers of Output statements, and the names assigned, among the first
\* k statements of the parsed script.
OutputsIn(k) == Cardinality({j \in 1..k : ast[j].t = "Neuro"})
AssignedIn(k) == {ast[j].name : j \in {i \in 1..k : ast[i].t = "SetVar"}}

\* The run of a script whose ModelSelect cannot be loaded stops there.
StopsAtFailingModel ==
  (input \in ModelScripts /\ parse_pc = "done" /\ pc = "idle" /\ pc' # "idle"
     /\ FailsSomewhere) =>
    /\ pc' = "aborted"
    /\ Len(output') = OutputsIn(FirstFailing - 1)
    /\ DOMAIN variables' = AssignedIn(FirstFailing - 1)
    /\ ai_model' = ai_model

\* The abort is turned into the Err result of analyze, the interpreter left
\* as it was.
AbortIsErr == pc = "aborted" => (pc' = "err" /\ UNCHANGED interp)

\* C15: a ModelSelect that cannot be loaded aborts the run at that statement:
\* no later statement of the script executes, and analyze returns Err instead
\* of crashing the host.
C15_FailingModelAborts == [][StopsAtFailingModel /\ AbortIsErr]_vars

\* neuro "before" / AI: "no.onnx" / neuro "after" has returned Err: the line
\* before is in the buffer, the line after is not.
C15_WitnessErr ==
  /\ input = <<NeuroBefore, AiNo, NeuroAfter>>
  /\ pc = "err"
  /\ ast[2] = AIModelNode(PathMissing)
  /\ output = <<<<"b", "e", "f", "o", "r", "e">>>>

(* ------------------------------------------------------------------ *)
(* Macro synthesis on its own: build_loop_dsl and build_macro_dsl      *)
(* applied to a label and a prompt (SpecSynth)                         *)
(* ------------------------------------------------------------------ *)

\* The greatest count written out in the numbered prompts.
MaxCount == 14

\* Say Hi <d> times
CountPrompt(d) == <<"S", "a", "y", " ", "H", "i", " ">> \o d \o <<" ", "t", "i", "m", "e", "s">>

\* Prompts with the count they ask for; the count is 0 when the prompt has
\* none or has one that no usize holds.
NumberedRequests == {[prompt |-> CountPrompt(NatToStr(n)), count |-> n] : n \in 0..MaxCount}

WordedRequests ==
  { [prompt |-> CountPrompt(<<"9", "9", "9", "9", "9", "9", "9", "9", "9", "9", "9", "9", "9", "9", "9", "9", "9", "9", "9", "9", "9", "9", "9">>), count |-> 0],
    [prompt |-> CountPrompt(<<"0", "0", "7">>), count |-> 7],
    [prompt |-> <<"S", "a", "y", " ", "H", "i">>, count |-> 0],
    [prompt |-> <<"S", "a", "y", " ", "H", "i", " ", "t", "w", "i", "c", "e">>, count |-> 2],
    [prompt |-> <<"S", "a", "y", " ", "H", "i", " ", "t", "e", "n", " ", "t", "i", "m", "e", "s">>, count |-> 10],
    [prompt |-> <<"S", "a", "y", " ", "H", "i", " ", "4", "x">>, count |-> 4],
    [prompt |-> <<"\"", "P", "r", "i", "n", "t", " ", "'", "G", "o", "'", " ", "1", "3", " ", "t", "i", "m", "e", "s", "\"">>, count |-> 13],
    [prompt |-> <<"R", "u", "n", " ", "3", " ", "t", "i", "m", "e", "s", ":", " ", "s", "h", "o", "w", " ", "i", "t", "'", "s", " ", "o", "k">>, count |-> 3],
    [prompt |-> <<"L", "o", "o", "p", ":", " ", "e", "c", "h", "o", " ", "a", " ", "#", " ", "b", " ", "1", "2", " ", "t", "i", "m", "e", "s">>, count |-> 12] }

LoopRequests == NumberedRequests \cup WordedRequests

\* Prompts for build_macro_dsl: conditionals with and without an output
\* joined by '+', loops, assignments, outputs.
SynthPrompts ==
  { <<"i", "f", " ", "x", " ", "p", "r", "i", "n", "t", " ", "'", "a", "'", " ", "+", " ", "b">>,
    <<"I", "f", " ", "s", "c", "o", "r", "e", " ", ">", " ", "5", " ", "p", "r", "i", "n", "t", " ", "n", "a", "m", "e", " ", "+", " ", "'", " ", "'", " ", "+", " ", "r", "a", "n", "k">>,
    <<"i", "f", " ", "s", "c", "o", "r", "e", " ", ">", " ", "5", " ", "s", "a", "y", " ", "H", "i", "g", "h", " ", "e", "l", "s", "e", " ", "s", "a", "y", " ", "L", "o", "w">>,
    <<"i", "f", " ", "x", " ", "i", "s", " ", "3", " ", "p", "r", "i", "n", "t", " ", "Y", "e", "s">>,
    <<"i", "f", " ", "a", " ", ">", " ", "b", " ", "t", "h", "e", "n", " ", "s", "e", "t", " ", "c", " ", "t", "o", " ", "a", " ", "+", " ", "b">>,
    <<"S", "h", "o", "w", " ", "P", "i", "n", "g", " ", "2", " ", "t", "i", "m", "e", "s">>,
    <<"S", "h", "o", "w", " ", "i", "t", "'", "s", " ", "o", "k", " ", "2", " ", "t", "i", "m", "e", "s">>,
    <<"s", "e", "t", " ", "x", " ", "t", "o", " ", "5">>,
    <<"s", "e", "t", " ", "y", " ", "t", "o", " ", "x", " ", "+", " ", "1", ",", " ", "t", "h", "e", "n", " ", "p", "r", "i", "n", "t", " ", "y">>,
    <<"S", "h", "o", "w", " ", "x", " ", "w", "h", "e", "n", " ", "y", " ", "i", "s", " ", "h", "i", "g", "h">>,
    <<"p", "r", "i", "n", "t", " ", "'", "a", "'", " ", "+", " ", "b">>,
    <<"s", "e", "t", " ", "x", " ", "t", "o", " ", "5", " ", "a", "n", "d", " ", "y", " ", "=", " ", "3", ",", " ", "t", "h", "e", "n", " ", "s", "h", "o", "w", " ", "i", "t">> }

SynthInputs ==
  {[label |-> l, prompt |-> p] : l \in MacroLabels, p \in SynthPrompts}
    \cup {[label |-> "Loop", prompt |-> r.prompt] : r \in LoopRequests}

InitSynth ==
  /\ input \in SynthInputs
  /\ dsl = <<>>
  /\ HostOff
  /\ variables = NoVars
  /\ output = <<>>
  /\ ai_model = NoModel
  /\ macro_model = NoModel
  /\ pc = "idle"
  /\ last = <<>>
  /\ calls = <<>>
  /\ LexOff
  /\ it = <<>>
  /\ ast = <<>>
  /\ parse_pc = "off"

\* build_loop_dsl(prompt)
BuildLoop ==
  /\ pc = "idle"
  /\ input.label = "Loop"
  /\ dsl' = build_loop_dsl(input.prompt)
  /\ pc' = "looped"
  /\ UNCHANGED <<interp, last, calls, lexVars, parseVars, input, hostVars>>

\* build_macro_dsl(label, prompt) returns.
BuildMacro ==
  /\ pc = "idle"
  /\ ~macro_panics(input.label, input.prompt)
  /\ dsl' = build_macro_dsl(input.label, input.prompt)
  /\ pc' = "built"
  /\ UNCHANGED <<interp, last, calls, lexVars, parseVars, input, hostVars>>

\* build_macro_dsl(label, prompt) panics.
BuildPanics ==
  /\ pc = "idle"
  /\ macro_panics(input.label, input.prompt)
  /\ pc' = "aborted"
  /\ UNCHANGED <<interp, last, calls, lexVars, parseVars, input, dsl, hostVars>>

NextSynth == BuildLoop \/ BuildMacro \/ BuildPanics

SpecSynth == InitSynth /\ [][NextSynth]_vars

\* An output statement as build_loop_dsl writes it: neuro "<msg>".
IsOutputLine(line) == StartsWith(line, <<"n", "e", "u", "r", "o", " ", "\"">>) /\ EndsWith(line, <<"\"">>) /\ Len(line) >= 8

\* C18: for every instruction handled by the Loop builder, the synthesized
\* text has between 1 and 12 output statements inclusive, whatever count the
\* instruction requests (0, a count above 12, a count too large to parse, or
\* no count at all), and their number equals the requested count when that
\* lies in 1..12.
C18_LoopCountClamped ==
  \A r \in LoopRequests :
    (pc = "looped" /\ input.prompt = r.prompt) =>
      /\ Len(dsl) >= 1
      /\ Len(dsl) <= 12
      /\ \A i \in DOMAIN dsl : IsOutputLine(dsl[i])
      /\ (r.count >= 1 /\ r.count <= 12) => Len(dsl) = r.count

\* The Loop builder has handled "Say Hi 13 times" and written twelve output
\* statements.
C18_WitnessThirteen ==
  /\ pc = "looped"
  /\ input.prompt = CountPrompt(<<"1", "3">>)
  /\ Len(dsl) = 12
  /\ dsl[12] = <<"n", "e", "u", "r", "o", " ", "\"", "H", "i", "\"">>

\* C19: for every instruction that begins with "if ", build_macro_dsl returns
\* the output of the Branch builder, whatever label was resolved for the
\* instruction and whatever else the instruction contains.
C19_IfGoesToBranch ==
  (pc = "built" /\ StartsWithIf(input.prompt)) => dsl = build_branch_dsl(input.prompt)

(* ------------------------------------------------------------------ *)
(* A session of macro invocations: one interpreter, one script per     *)
(* call of analyze, the output taken after each call (SpecMacro)       *)
(* ------------------------------------------------------------------ *)

\* macro from AI: "<instr>"
MacroLine(instr) == <<"m", "a", "c", "r", "o", " ", "f", "r", "o", "m", " ", "A", "I", ":", " ", "\"">> \o instr \o <<"\"">>

\* The statements of a script, as tokenize and parse give them.
Script(lines) == parse(tokenize(lines).toks)

\* Show <m> <n> times
LoopInstr(m, n) == <<"S", "h", "o", "w", " ">> \o m \o <<" ">> \o NatToStr(n) \o <<" ", "t", "i", "m", "e", "s">>

LoopMessages == {<<"P", "i", "n", "g">>, <<"i", "t", "'", "s", " ", "o", "k">>}
LoopCounts == {2, 3}

LoopInstrs == {LoopInstr(m, n) : m \in LoopMessages, n \in LoopCounts}

\* Instructions that assign, that read bindings, that panic, that take the
\* shortcut, that print.
AssignInstrs == {<<"s", "e", "t", " ", "x", " ", "t", "o", " ", "5">>, <<"s", "e", "t", " ", "y", " ", "t", "o", " ", "x", " ", "+", " ", "1">>}

\* if 1 == 1 say a' macro from AI: <inner> 'b : the Branch builder copies the
\* message, and the apostrophes become the quotes that end the text of the
\* output statement before the word macro.
NestInstr(inner) == <<"i", "f", " ", "1", " ", "=", "=", " ", "1", " ", "s", "a", "y", " ", "a", "'", " ", "m", "a", "c", "r", "o", " ", "f", "r", "o", "m", " ", "A", "I", ":", " ">> \o inner \o <<" ", "'", "b">>

NestLoop == NestInstr(<<"S", "h", "o", "w", " ", "P", "i", "n", "g", " ", "2", " ", "t", "i", "m", "e", "s">>)
NestPrint == NestInstr(<<"P", "r", "i", "n", "t", " ", "H", "i">>)

NestInstrs == {NestLoop, NestPrint}

MacroMenu ==
  AssignInstrs \cup NestInstrs \cup
  { <<"S", "h", "o", "w", " ", "x", " ", "w", "h", "e", "n", " ", "y", " ", "i", "s", " ", "h", "i", "g", "h">>,
    <<"i", "f", " ", "y", " ", "i", "s", " ", "h", "i", "g", "h", " ", "s", "a", "y", " ", "Y", "e", "s", " ", "e", "l", "s", "e", " ", "s", "a", "y", " ", "N", "o">>,
    <<"s", "e", "t", " ", "x", " ", "t", "o", " ", "5", " ", "a", "n", "d", " ", "y", " ", "=", " ", "3", ",", " ", "t", "h", "e", "n", " ", "s", "h", "o", "w", " ", "i", "t">>,
    <<"m", "a", "i", "n", " ", "s", "t", "a", "r", "t", "s", " ", "h", "e", "r", "e">>,
    <<"P", "r", "i", "n", "t", " ", "H", "i">> }

\* neuro x, neuro y
FollowLines == {<<"n", "e", "u", "r", "o", " ", "x">>, <<"n", "e", "u", "r", "o", " ", "y">>}

\* Statements written out in the script.
WrittenLines == {<<"s", "e", "t", " ", "y", " ", "=", " ", "\"", "h", "i", "g", "h", "\"">>, <<"A", "I", ":", " ", "\"", "i", "n", "t", "e", "n", "t", "_", "m", "a", "c", "r", "o", ".", "o", "n", "n", "x", "\"">>, <<"n", "e", "u", "r", "o", " ", "x">>}

RunLoopMacro == \E instr \in LoopInstrs : RunCall(Script(<<MacroLine(instr)>>))

RunMacro == \E instr \in MacroMenu : RunCall(Script(<<MacroLine(instr)>>))

RunMacroThen ==
  \E instr \in AssignInstrs, line \in FollowLines : RunCall(Script(<<MacroLine(instr), line>>))

RunPlain == \E line \in WrittenLines : RunCall(Script(<<line>>))

NextMacro == RunLoopMacro \/ RunMacro \/ RunMacroThen \/ RunPlain \/ TakeOutput \/ Caught

SpecMacro == InitInterp /\ [][NextMacro]_vars

\* A step that runs the statements nodes.
RunsScript(nodes) == pc = "idle" /\ pc' # "idle" /\ last' = nodes

\* n statements neuro "<m>"
Literals(m, n) == Script([i \in 1..n |-> NeuroQuoted(m)])

\* C16: running a script that consists solely of the statement
\* macro from AI: "Show Ping 2 times" (the classifier absent, or labelling the
\* instruction Loop) leaves the same output buffer and the same Environment
\* as running the two literal statements neuro "Ping"; in general a Loop
\* macro with message m and count n is equivalent to n literal outputs of m.
C16_LoopMacroAsLiterals ==
  [][\A m \in LoopMessages, n \in LoopCounts :
       RunsScript(Script(<<MacroLine(LoopInstr(m, n))>>)) =>
         LeavesAs(Literals(m, n), run(Self, Literals(m, n)))]_vars

\* The instruction of `macro from AI: "<instr>"` as the parser hands it to
\* run, with its quotes.
Quoted(instr) == <<"\"">> \o instr \o <<"\"">>

\* The statements that the text synthesized for the instruction holds, for
\* this interpreter: none when tokenize rejects the text.
Inlined(instr) ==
  IF tokenize(MacroDsl(ensure_macro_model(Self).macro_model, Quoted(instr))).ok
  THEN Script(MacroDsl(ensure_macro_model(Self).macro_model, Quoted(instr)))
  ELSE <<>>

\* The variables that the statements assign at their top level.
AssignedBy(nodes) == {nodes[i].name : i \in {j \in DOMAIN nodes : nodes[j].t = "SetVar"}}

\* C17: the statements synthesized for a macro invocation run on the same
\* Interpreter instance as the invoking script: the run leaves the Environment
\* and the output buffer that the synthesized statements, written in place of
\* the invocation, leave (so bindings made before the macro are visible to
\* them), and a variable they assign is bound, with that value, for the
\* statement that follows the invocation.
C17_SynthesizedRunsHere ==
  [][\A instr \in MacroMenu, rest \in {<<>>} \cup {Script(<<l>>) : l \in FollowLines} :
       (RunsScript(<<MacroCall(Quoted(instr))>> \o rest) /\ pc' = "ran") =>
         /\ LeavesAs(Inlined(instr) \o rest, run(Self, Inlined(instr) \o rest))
         /\ \A v \in AssignedBy(Inlined(instr)) :
              /\ v \in DOMAIN variables'
              /\ rest = <<Neuro(v)>> => output' = Append(output, variables'[v])]_vars

\* With x bound to 5 by an earlier script, the script
\* macro from AI: "set y to x + 1" / neuro y has run: y is bound to 6 and 6
\* was printed.
C17_WitnessSix ==
  /\ pc = "ran"
  /\ last = <<MacroCall(Quoted(<<"s", "e", "t", " ", "y", " ", "t", "o", " ", "x", " ", "+", " ", "1">>)), Neuro(<<"y">>)>>
  /\ <<"x">> \in DOMAIN variables
  /\ variables[<<"x">>] = <<"5">>
  /\ <<"y">> \in DOMAIN variables
  /\ variables[<<"y">>] = <<"6">>
  /\ output = <<<<"6">>>>

\* C20: for every instruction, the text produced by macro synthesis is valid
\* DSL source: tokenize succeeds on it, so a macro invocation never ends in
\* the "Macro execution failed" path and always executes at least one
\* statement.
C20_SynthesizedTextTokenizes ==
  [][\A instr \in MacroMenu \cup LoopInstrs :
       RunsScript(<<MacroCall(Quoted(instr))>>) =>
         /\ pc' = "ran"
         /\ tokenize(MacroDsl(macro_model', Quoted(instr))).ok
         /\ Inlined(instr) # <<>>]_vars

(* ------------------------------------------------------------------ *)
(* Properties of the value analyze returns (SpecAnalyze)               *)
(* ------------------------------------------------------------------ *)

\* The steps on which analyze returns.
ReturnsOk == pc = "ran" /\ pc' = "ok"
ReturnsErr == pc = "aborted" /\ pc' = "err"
LexFails == lex_pc = "off" /\ lex_pc' = "failed"

\* The text has a character that is not white space.
HasText(out) == \E i \in DOMAIN out : out[i] \notin {" ", "\n"}

\* The run aborts, or tokenize fails: Err with an error string; tokenize
\* failing leaves the interpreter and the AST as they were.
ErrOnAbort == ReturnsErr => (result'.kind = "err" /\ result'.text # <<>>)

ErrOnLexFailure ==
  LexFails => (result'.kind = "err" /\ result'.text # <<>> /\ UNCHANGED <<runVars, parseVars>>)

\* Once tokenize has failed, nothing runs: the interpreter stays new.
NothingRunsAfterLexFailure ==
  lex_pc = "failed" =>
    (pc = "idle" /\ parse_pc = "off" /\ variables = NoVars /\ output = <<>>
       /\ result.kind = "err")

\* Ok with the lines joined when any line was emitted, the sentinel when none.
OkJoinedUnlessNoLine ==
  ReturnsOk =>
    result' = ResultOk(IF output # <<>> THEN JoinLines(output) ELSE Succeeded)

\* Ok with the lines joined when the joined text is not blank, the sentinel
\* when no line was emitted or every line is white space.
OkJoinedUnlessBlank ==
  ReturnsOk =>
    /\ result'.kind = "ok"
    /\ HasText(JoinLines(output)) => result'.text = JoinLines(output)
    /\ ~HasText(JoinLines(output)) => result'.text = Succeeded

\* C21 as stated: analyze returns Ok with the emitted lines joined by newlines
\* when the run completes having emitted output, Ok with the sentinel when it
\* emitted nothing, and Err when tokenization fails or the run aborts; on a
\* tokenization failure nothing has been executed.
C21_OkJoinedOrSentinelWhenNothing ==
  /\ [][OkJoinedUnlessNoLine /\ ErrOnAbort /\ ErrOnLexFailure]_vars
  /\ []NothingRunsAfterLexFailure

\* C21 amended: analyze returns Ok with the emitted lines joined by newlines in
\* emission order when the joined text has a character that is not white
\* space, Ok with the sentinel when nothing was emitted or only blank lines
\* were, and Err when tokenization fails or the run aborts; on a tokenization
\* failure no statement has been executed and the Environment is unchanged.
C21_OkJoinedOrSentinelWhenBlank ==
  /\ [][OkJoinedUnlessBlank /\ ErrOnAbort /\ ErrOnLexFailure]_vars
  /\ []NothingRunsAfterLexFailure

\* neuro " " has run: one line was emitted, a space, and analyze has returned
\* the sentinel.
C21_WitnessBlankLine ==
  /\ input = <<NeuroSpace>>
  /\ pc = "ok"
  /\ result = ResultOk(Succeeded)

(* ------------------------------------------------------------------ *)
(* The output buffer between the calls of a session (SpecRun)          *)
(* ------------------------------------------------------------------ *)

\* C27: whenever analyze returns, with Ok or with Err, the output buffer of the
\* interpreter is empty, so the text a later call on the same interpreter
\* returns holds only the lines emitted during that call.
C27_BufferEmptyOnReturn == pc = "idle" => output = <<>>

(* ------------------------------------------------------------------ *)
(* parse on conditions chained with and / or (SpecBool)                *)
(* ------------------------------------------------------------------ *)

MaxAtoms == 4

\* Comparisons as the lexer hands them over, each with the node
\* parse_bool_atom makes of it: x == "a", y != x, 5 > 3.
AtomMenu ==
  { [toks |-> <<tX, Tok("Equals"), TString(qA)>>,
     node |-> BAtom("EqualsVar", <<"x">>, <<"a">>)],
    [toks |-> <<TString(<<"y">>), Tok("NotEquals"), tX>>,
     node |-> BAtom("VarNotEqualsVar", <<"y">>, <<"x">>)],
    [toks |-> <<TNumber(<<"5">>), Tok("GreaterThan"), TNumber(<<"3">>)>>,
     node |-> BAtom("Greater", <<"5">>, <<"3">>)] }

Connectives == {"And", "Or"}

\* The tokens of atoms[1] ops[1] atoms[2] ... atoms[n].
RECURSIVE ChainToks(_, _, _)
ChainToks(atoms, ops, n) ==
  IF n = 1 THEN atoms[1].toks
  ELSE ChainToks(atoms, ops, n - 1) \o <<Tok(ops[n - 1])>> \o atoms[n].toks

\* if <chain>: with the block neuro "a".
IfChain(atoms, ops, n) ==
  <<Tok("If")>> \o ChainToks(atoms, ops, n) \o <<Tok("Colon"), tNL, Tok("Indent")>>
    \o NeuroLine \o <<Tok("Dedent")>>

Chains ==
  UNION {{[n |-> n, atoms |-> as, ops |-> os] :
            as \in [1..n -> AtomMenu], os \in [1..(n - 1) -> Connectives]} :
         n \in 1..MaxAtoms}

ChainMenu == {IfChain(c.atoms, c.ops, c.n) : c \in Chains}

\* parse(tokens) has been called on the tokens of one conditional.
InitBool ==
  /\ variables = NoVars
  /\ output = <<>>
  /\ ai_model = NoModel
  /\ macro_model = NoModel
  /\ pc = "idle"
  /\ last = <<>>
  /\ calls = <<>>
  /\ LexOff
  /\ input \in ChainMenu
  /\ dsl = <<>>
  /\ HostOff
  /\ it = input
  /\ ast = <<>>
  /\ parse_pc = "loop"

SpecBool == InitBool /\ [][NextParse]_vars

\* ((a1 op1 a2) op2 a3) ... : the last connective is the root.
RECURSIVE LeftNested(_, _, _)
LeftNested(atoms, ops, n) ==
  IF n = 1 THEN atoms[1].node
  ELSE IF ops[n - 1] = "And" THEN BAnd(LeftNested(atoms, ops, n - 1), atoms[n].node)
  ELSE BOr(LeftNested(atoms, ops, n - 1), atoms[n].node)

\* C25: a boolean expression is parsed as a left-associative chain in which
\* `and` and `or` have the same precedence: a1 op1 a2 op2 a3 ... parses to
\* ((a1 op1 a2) op2 a3) ..., so `a and b or c` is Or(And(a, b), c) and
\* `a or b and c` is And(Or(a, b), c).
C25_ChainIsLeftNested ==
  parse_pc = "done" =>
    \A c \in Chains :
      input = IfChain(c.atoms, c.ops, c.n) =>
        ast = <<IfStatement(LeftNested(c.atoms, c.ops, c.n), <<Neuro(qA)>>, <<>>, NoElse)>>

\* if x == "a" or y != x and 5 > 3: has been parsed; the root is the And.
C25_WitnessOrThenAnd ==
  /\ parse_pc = "done"
  /\ Len(ast) = 1
  /\ ast[1].condition =
       BAnd(BOr(BAtom("EqualsVar", <<"x">>, <<"a">>), BAtom("VarNotEqualsVar", <<"y">>, <<"x">>)),
            BAtom("Greater", <<"5">>, <<"3">>))

(* ------------------------------------------------------------------ *)
(* Conditionals whose header does not parse (SpecAnalyze)              *)
(* ------------------------------------------------------------------ *)

\* C28: a statement written inside the indented block of an if/elif/else
\* executes only when its branch is selected: when the if or elif header of a
\* conditional cannot be parsed the conditional is dropped as a whole, none of
\* the statements of its blocks is a top-level statement of the AST, and the
\* run emits nothing.
C28_BadHeaderDropsBlocks ==
  (input \in BadIfScripts /\ parse_pc = "done") =>
    /\ ast = <<>>
    /\ pc = "ran" => output = <<>>

(* ------------------------------------------------------------------ *)
(* engine.rs: normalize_legacy                                         *)
(* ------------------------------------------------------------------ *)

wSay == <<"s", "a", "y">>
wPrint == <<"p", "r", "i", "n", "t">>
wNeuro == <<"n", "e", "u", "r", "o">>

\* rest.is_empty() || rest.starts_with([' ', '"', '\'', '(']), for the rest of
\* t behind the word.
GoesOnAsCommand(t, n) == Len(t) = n \/ t[n + 1] \in {" ", "\"", "'", "("}

\* t starts with the word in any case and goes on as a command does.
IsLegacy(t, word) == StartsWith(ToLower(t), word) /\ GoesOnAsCommand(t, Len(word))

\* say / print at the start of t replaced by neuro.
LegacyToNeuro(t) ==
  IF IsLegacy(t, wSay) THEN wNeuro \o From(t, 4)
  ELSE IF IsLegacy(t, wPrint) THEN wNeuro \o From(t, 6)
  ELSE t

\* The leading white space of a line.
IndentOf(line) == SubSeq(line, 1, Len(line) - Len(TrimStart(line)))

\* is_ctrl, on the head trimmed at its start and lowered.
IsCtrl(h) ==
  \/ StartsWith(h, <<"i", "f", " ">>)
  \/ StartsWith(h, <<"e", "l", "i", "f", " ">>)
  \/ StartsWith(h, <<"e", "l", "s", "e">>)

\* format!("{head}\n{indent}    {norm_tail}")
TwoLines(head, indent, tail) ==
  head \o <<"\n">> \o indent \o <<" ", " ", " ", " ">> \o LegacyToNeuro(tail)

\* Step 2: the line is cut behind its first colon, at position i; with a
\* control word in front and a command behind it becomes a block of two lines.
InlineBlock(conv, indent, i) ==
  IF i = 0 THEN conv
  ELSE IF IsCtrl(ToLower(TrimStart(SubSeq(conv, 1, i)))) /\ TrimStart(From(conv, i + 1)) # <<>>
  THEN TwoLines(SubSeq(conv, 1, i), indent, TrimStart(From(conv, i + 1)))
  ELSE conv

\* The loop of replace_case_insensitive_safe, at position i of h.
RECURSIVE ReplaceFrom(_, _, _, _)
ReplaceFrom(h, n, r, i) ==
  IF i + Len(n) - 1 > Len(h) THEN From(h, i)
  ELSE IF ToLower(SubSeq(h, i, i + Len(n) - 1)) = ToLower(n)
  THEN r \o ReplaceFrom(h, n, r, i + Len(n))
  ELSE <<h[i]>> \o ReplaceFrom(h, n, r, i + 1)

replace_case_insensitive_safe(h, n, r) ==
  IF n = <<>> \/ Len(n) > Len(h) THEN h ELSE ReplaceFrom(h, n, r, 1)

ColonNeuro == <<":", " ">> \o wNeuro

\* Step 3: ": say" and ": print" anywhere in the line become ": neuro".
ColonWords(conv) ==
  replace_case_insensitive_safe(
    replace_case_insensitive_safe(conv, <<":", " ">> \o wSay, ColonNeuro),
    <<":", " ">> \o wPrint, ColonNeuro)

\* Steps 2 and 3 on the line as step 1 left it.
AfterStart(conv, indent) == ColonWords(InlineBlock(conv, indent, Find(conv, <<":">>)))

\* The body of the loop over the lines.
NormLine(line) == AfterStart(IndentOf(line) \o LegacyToNeuro(TrimStart(line)), IndentOf(line))

\* normalize_legacy: each line converted, with a newline behind it.
RECURSIVE normalize_legacy(_)
normalize_legacy(lines) ==
  IF lines = <<>> THEN <<>>
  ELSE NormLine(lines[1]) \o <<"\n">> \o normalize_legacy(Tail(lines))

\* str::lines
RECURSIVE LinesOf(_)
LinesOf(text) ==
  IF text = <<>> THEN <<>>
  ELSE IF Find(text, <<"\n">>) = 0 THEN <<text>>
  ELSE <<SubSeq(text, 1, Find(text, <<"\n">>) - 1)>> \o LinesOf(From(text, Find(text, <<"\n">>) + 1))

\* Lines as they are written: legacy output commands, conditionals with a
\* command behind the colon, texts with a colon in them, macro lines.
SayHi == <<"s", "a", "y", " ", "\"", "h", "i", "\"">>
SayHiTight == <<"s", "a", "y", "\"", "h", "i", "\"">>
PrintParen == <<"P", "R", "I", "N", "T", " ", "(", "\"", "h", "i", "\"", ")">>
Saying == <<"s", "a", "y", "i", "n", "g", " ", "\"", "h", "i", "\"">>
SayAlone == <<"S", "a", "y">>
NeuroHi == <<"n", "e", "u", "r", "o", " ", "\"", "h", "i", "\"">>
IndentedSay == <<" ", " ", " ", " ", "s", "a", "y", " ", "\"", "h", "i", "\"">>
NeuroNote == <<"n", "e", "u", "r", "o", " ", "\"", "n", "o", "t", "e", ":", " ", "s", "a", "y", " ", "h", "i", "\"">>
SetNote == <<"s", "e", "t", " ", "x", " ", "=", " ", "\"", "t", "o", ":", " ", "p", "r", "i", "n", "t", "\"">>
IfSay == <<"i", "f", " ", "x", " ", "=", "=", " ", "\"", "a", "\"", ":", " ", "s", "a", "y", " ", "\"", "y", "e", "s", "\"">>
IfOnly == <<"i", "f", " ", "x", " ", "=", "=", " ", "\"", "a", "\"", ":">>
ElsePrint == <<"e", "l", "s", "e", ":", " ", "p", "r", "i", "n", "t", " ", "\"", "n", "o", "\"">>
ElifNeuro == <<"e", "l", "i", "f", " ", "x", " ", "=", "=", " ", "\"", "b", "\"", ":", " ", "n", "e", "u", "r", "o", " ", "\"", "b", "\"">>
IfColonText == <<"i", "f", " ", "x", " ", "=", "=", " ", "\"", "a", ":", "b", "\"", ":">>
IndentedIfSay == <<" ", " ", " ", " ", "i", "f", " ", "x", " ", "=", "=", " ", "\"", "a", "\"", ":", " ", "p", "r", "i", "n", "t", " ", "x">>
MacroSay == <<"m", "a", "c", "r", "o", " ", "f", "r", "o", "m", " ", "A", "I", ":", " ", "s", "a", "y", " ", "h", "e", "l", "l", "o", " ", "3", " ", "t", "i", "m", "e", "s">>
MacroQuoted == <<"m", "a", "c", "r", "o", " ", "f", "r", "o", "m", " ", "A", "I", ":", " ", "\"", "S", "h", "o", "w", " ", "P", "i", "n", "g", " ", "2", " ", "t", "i", "m", "e", "s", "\"">>
MacroPrint == <<"m", "a", "c", "r", "o", " ", "f", "r", "o", "m", " ", "A", "I", ":", " ", "\"", "t", "e", "l", "l", " ", "m", "e", ":", " ", "p", "r", "i", "n", "t", " ", "i", "t", "\"">>

OutputLines ==
  { SayHi,
    SayHiTight,
    PrintParen,
    Saying,
    SayAlone,
    NeuroHi,
    IndentedSay,
    NeuroNote,
    SetNote }

CtrlLines ==
  { IfSay,
    IfOnly,
    ElsePrint,
    ElifNeuro,
    IfColonText,
    IndentedIfSay }

MacroLines == {MacroSay, MacroQuoted, MacroPrint}

SourceLines == OutputLines \cup CtrlLines \cup MacroLines

\* Scripts of one line, and of a conditional line with one line behind it.
SourceMenu ==
  {<<l>> : l \in SourceLines} \cup {<<c, l>> : c \in CtrlLines, l \in SourceLines}

\* analyze has preprocessed its input.
InitNorm ==
  /\ variables = NoVars
  /\ output = <<>>
  /\ ai_model = NoModel
  /\ macro_model = NoModel
  /\ pc = "idle"
  /\ last = <<>>
  /\ calls = <<>>
  /\ LexOff
  /\ it = <<>>
  /\ ast = <<>>
  /\ parse_pc = "off"
  /\ input \in SourceMenu
  /\ dsl = <<>>
  /\ HostOff

\* let norm = normalize_legacy(&pre)
Normalize ==
  /\ lex_pc = "off"
  /\ norm = <<>>
  /\ norm' = normalize_legacy(input)
  /\ UNCHANGED <<runVars, lexVars, parseVars, input, dsl, result, label, srvVars>>

\* let tokens = tokenize(&norm)?
TokenizeNorm ==
  /\ lex_pc = "off"
  /\ norm # <<>>
  /\ Lexed(tokenize(LinesOf(norm)))

NextNorm == Normalize \/ TokenizeNorm

SpecNorm == InitNorm /\ [][NextNorm]_vars

(* ------------------------------------------------------------------ *)
(* Properties of normalize_legacy (SpecNorm)                           *)
(* ------------------------------------------------------------------ *)

\* The text of the lines, a newline behind each.
RECURSIVE SourceText(_)
SourceText(lines) ==
  IF lines = <<>> THEN <<>> ELSE lines[1] \o <<"\n">> \o SourceText(Tail(lines))

\* The texts between the first and the second double quote, the third and
\* the fourth, and so on.
RECURSIVE QuotedTexts(_)
QuotedBehind(t) ==
  IF Find(t, <<"\"">>) = 0 THEN <<>>
  ELSE <<SubSeq(t, 1, Find(t, <<"\"">>) - 1)>> \o QuotedTexts(From(t, Find(t, <<"\"">>) + 1))

QuotedTexts(s) ==
  IF Find(s, <<"\"">>) = 0 THEN <<>> ELSE QuotedBehind(From(s, Find(s, <<"\"">>) + 1))

MacroHead == <<"m", "a", "c", "r", "o", " ", "f", "r", "o", "m", " ", "A", "I", ":">>

\* The instruction texts of the macro lines.
RECURSIVE MacroTexts(_)
MacroTexts(lines) ==
  IF lines = <<>> THEN <<>>
  ELSE IF StartsWith(lines[1], MacroHead)
  THEN <<From(lines[1], Len(MacroHead) + 1)>> \o MacroTexts(Tail(lines))
  ELSE MacroTexts(Tail(lines))

\* C29: normalize_legacy rewrites only a statement-introducing say / print and
\* expands an inline if/elif/else: <command>; the characters inside
\* double-quoted string literals and the instruction text of a macro from AI:
\* line reach the lexer unchanged.
C29_LiteralsAndMacroTextKept ==
  norm # <<>> =>
    /\ QuotedTexts(norm) = QuotedTexts(SourceText(input))
    /\ MacroTexts(LinesOf(norm)) = MacroTexts(input)

(* ------------------------------------------------------------------ *)
(* The label handed to build_macro_dsl (SpecLabel)                     *)
(* ------------------------------------------------------------------ *)

\* Instructions with and without assignment vocabulary, with the words of the
\* later preferences in them, and with a form feed behind an embedded set.
LabelPrompts ==
  { <<"s", "e", "t", " ", "x", " ", "=", " ", "5">>,
    <<"s", "e", "t", " ", "x", " ", "=", " ", "2", " ", "+", " ", "3">>,
    <<"c", "r", "e", "a", "t", "e", " ", "v", "a", "r", "i", "a", "b", "l", "e", " ", "y", " ", "w", "i", "t", "h", " ", "v", "a", "l", "u", "e", " ", "7">>,
    <<"s", "t", "o", "r", "e", " ", "5", " ", "i", "n", " ", "z">>,
    <<"p", "r", "i", "n", "t", " ", "t", "o", "t", "a", "l", " ", "a", "n", "d", " ", "s", "e", "t", " ", "x", " ", "=", " ", "1", " ", "n", "o", "w">>,
    <<"p", "r", "i", "n", "t", " ", "t", "o", "t", "a", "l", " ", "a", "n", "d", " ", "s", "e", "t", "\f", "x", " ", "=", " ", "1", " ", "n", "o", "w">>,
    <<"w", "r", "i", "t", "e", " ", "a", " ", "c", "o", "m", "m", "e", "n", "t", " ", "h", "i", " ", "t", "h", "e", "n", " ", "s", "e", "t", " ", "x", " ", "t", "o", " ", "2", " ", "n", "o", "w">>,
    <<"s", "a", "y", " ", "h", "i", " ", "u", "s", "i", "n", "g", " ", "/", "/", " ", "a", "n", "d", " ", "s", "e", "t", "\f", "x", " ", "t", "o", " ", "2", " ", "n", "o", "w">>,
    <<"s", "e", "t", " ", "x", " ", "=", " ", "j", "o", "i", "n", " ", "'", "a", "'", " ", "a", "n", "d", " ", "'", "b", "'">>,
    <<"c", "o", "m", "b", "i", "n", "e", " ", "'", "a", "'", " ", "a", "n", "d", " ", "'", "b", "'", " ", "t", "h", "e", "n", " ", "s", "e", "t", " ", "x", " ", "=", " ", "'", "c", "'", " ", "n", "o", "w">>,
    <<"p", "r", "i", "n", "t", " ", "h", "e", "l", "l", "o">>,
    <<"S", "h", "o", "w", " ", "P", "i", "n", "g", " ", "2", " ", "t", "i", "m", "e", "s">>,
    <<"s", "e", "t", " ", "x", " ", "t", "o", " ", "5", " ", "a", "n", "d", " ", "y", " ", "=", " ", "3", ",", " ", "t", "h", "e", "n", " ", "s", "h", "o", "w", " ", "i", "t">> }

\* What the classifier says: nothing that counts, or any label with a score
\* at or above the threshold.
Answers == {NoAnswer} \cup {[label |-> l, confident |-> TRUE] : l \in MacroLabels}

\* The MacroCall arm has prepared the prompt and asked the classifier.
InitLabel ==
  /\ variables = NoVars
  /\ output = <<>>
  /\ ai_model = NoModel
  /\ macro_model = NoModel
  /\ pc = "idle"
  /\ last = <<>>
  /\ calls = <<>>
  /\ LexOff
  /\ it = <<>>
  /\ ast = <<>>
  /\ parse_pc = "off"
  /\ input \in [prompt : LabelPrompts, answer : Answers]
  /\ dsl = <<>>
  /\ HostOff

\* The preferences have been applied: label_for_template is final.
ResolveLabel ==
  /\ pc = "idle"
  /\ ~label_panics(input.prompt)
  /\ label' = label_for_template(input.prompt, input.answer)
  /\ pc' = "labelled"
  /\ UNCHANGED <<interp, last, calls, lexVars, parseVars, input, dsl, result, norm, srvVars>>

\* parse_var_expr panics while the assignment preference looks for math.
ResolvePanics ==
  /\ pc = "idle"
  /\ label_panics(input.prompt)
  /\ pc' = "aborted"
  /\ UNCHANGED <<interp, last, calls, lexVars, parseVars, input, dsl, hostVars>>

NextLabel == ResolveLabel \/ ResolvePanics

SpecLabel == InitLabel /\ [][NextLabel]_vars

\* The Concat preference fires on p.
ConcatFires(p) == HasConcatWord(ToLower(p)) /\ Len(all_quoted(p)) >= 2

\* C26: when the assignment preference fires (the instruction starts with
\* set/create/store or embeds then/and set X =), the label handed to template
\* dispatch is Arith or SetVar unless the Concat preference also fires, in
\* which case it is Concat; neither DocPrint preference replaces it.
C26_AssignmentLabelStands ==
  (pc = "labelled" /\ StartsAssignment(input.prompt)) =>
    IF ConcatFires(input.prompt) THEN label = "Concat" ELSE label \in {"Arith", "SetVar"}

(* ------------------------------------------------------------------ *)
(* Macro invocations inside synthesized text (interpreter/mod.rs,      *)
(* ASTNode::MacroCall re-entering run)                                 *)
(* ------------------------------------------------------------------ *)

\* The instructions of the macro invocations among the statements nodes, the
\* blocks of the if statements included.
RECURSIVE CallsIn(_)
RECURSIVE ElifCalls(_)
CallsOf(node) ==
  CASE node.t = "MacroCall" -> <<node.instr>>
    [] node.t = "IfStatement" ->
         CallsIn(node.body) \o ElifCalls(node.elif_blocks)
           \o (IF node.else_body.some THEN CallsIn(node.else_body.blk) ELSE <<>>)
    [] OTHER -> <<>>

CallsIn(nodes) == IF nodes = <<>> THEN <<>> ELSE CallsOf(nodes[1]) \o CallsIn(Tail(nodes))

ElifCalls(elifs) == IF elifs = <<>> THEN <<>> ELSE CallsIn(elifs[1].blk) \o ElifCalls(Tail(elifs))

\* The macro invocations the statements of the tokens r hold.
CallsOfTokens(r) == IF r.ok THEN CallsIn(parse(r.toks)) ELSE <<>>

\* The macro invocations in the text synthesized as r.
CallsOfSynth(r) == IF r.panics THEN <<>> ELSE CallsOfTokens(tokenize(r.lines))

\* The instructions run re-enters itself with while it handles the macro
\* invocation instr under the macro model m.
Nested(m, instr) == CallsOfSynth(MacroSynth(m, instr))

\* How often the word macro stands in the text.
Mentions(text) ==
  Cardinality({i \in 1..(Len(text) - 4) : SubSeq(text, i, i + 4) = <<"m", "a", "c", "r", "o">>})

\* Every invocation nested in the handling of instr, at every depth, mentions
\* the word macro less often than the invocation it is nested in.
RECURSIVE Descends(_, _)
DescendsAll(m, instr, nested) ==
  \A i \in DOMAIN nested :
    Mentions(nested[i]) < Mentions(instr) /\ Descends(m, nested[i])

Descends(m, instr) == DescendsAll(m, instr, Nested(m, instr))

\* The depth of the re-entries of run under the invocation instr.
RECURSIVE Depth(_, _)
DepthOver(m, nested) ==
  IF nested = <<>> THEN 0 ELSE 1 + Max({Depth(m, nested[i]) : i \in DOMAIN nested})

Depth(m, instr) == DepthOver(m, Nested(m, instr))

\* The macro invocations of the script run last descend under the macro
\* model the call has ensured.
LastDescends(m, called) == \A i \in DOMAIN called : Descends(m, called[i])

\* C30: every call of run on a script of the session returns, normally or
\* aborted, and the macro invocations that the text synthesized for a macro
\* invocation gives rise to descend: each mentions the word macro less often
\* than the invocation whose text holds it, so the re-entries of run from the
\* macro handling end after finitely many levels.
C30_NestedMacrosDescend ==
  pc # "idle" =>
    /\ pc \in {"ran", "aborted"}
    /\ LastDescends(ensure_macro_model(Self).macro_model, CallsIn(last))

\* The invocation of NestLoop has run: the text synthesized for it held a
\* macro invocation of its own, run re-entered itself one level deeper for
\* it, and the lines of both levels are in the output.
C30_WitnessNestedRan ==
  /\ pc = "ran"
  /\ last = <<MacroCall(<<"\"">> \o NestLoop \o <<"\"">>)>>
  /\ Nested(macro_model, NestLoop) = <<<<"S", "h", "o", "w", " ", "P", "i", "n", "g", " ", "2", " ", "t", "i", "m", "e", "s", " ", "\"", "b", "\"">>>>
  /\ Depth(macro_model, NestLoop) = 1
  /\ Len(output) = 3
  /\ output[1] = <<"a">>
  /\ output[2] = <<"b">>
  /\ output[3] = <<"b">>

(* ------------------------------------------------------------------ *)
(* The server (bin/neurochain-server.rs): api_analyze under the key     *)
(* check, the per-IP gate and the CPU gate (SpecServer)                 *)
(* ------------------------------------------------------------------ *)

\* Every handler is polled until it has answered: the connection of a
\* request stays open, and its body is a JSON document the extractor takes.
\*
\* reqs[h] is the call of api_analyze in handler h:
\*   at         "idle" (no call; status, ok, ran are those of the last answer),
\*              "cloned" (acquire_per_ip_permit holds the clone of the bucket
\*              semaphore, the table unlocked), "cpu" (in front of the CPU
\*              gate), "waiting" (in the soft wait), "running" (the blocking
\*              task runs engine::analyze)
\*   ip         client_ip of the request, "none" when it is not reliable or
\*              the call has answered
\*   carries    a key is configured, and the X-API-Key header or the Bearer
\*              token of the request is that key
\*   sem        the semaphore cloned from the bucket, 0 when none is held
\*   ip_permit  the semaphore whose permit the call holds, 0 when none
\*   permit     the call holds a permit of inference_sem

\* The key of NC_API_KEY when one is configured.
TheKey == <<"k", "1">>

\* The addresses of the clients.
Ips == {"a"}

\* ip_bucket_ttl, in ticks of the clock, and the reading at which the clock
\* of the model stops.
Ttl == 1
MaxClock == Ttl + 1

\* IP_TABLE_CLEANUP_EVERY, scaled down; ip_cleanup_counter is kept modulo it.
CleanupEvery == 2

\* The semaphores that can be alive at a time.
Sems == 1..(MaxHandlers + Cardinality(Ips))

XApiKey(v) == [x_api_key |-> SomeText(v), authorization |-> NoText]
Authorization(v) == [x_api_key |-> NoText, authorization |-> SomeText(v)]

\* The credentials of the requests, each with what it is: carries tells
\* whether the X-API-Key header or the Bearer token is the key.
CredMenu ==
  { [headers |-> NoHeaders, carries |-> FALSE],
    [headers |-> XApiKey(TheKey), carries |-> TRUE],
    [headers |-> XApiKey(<<" ">> \o TheKey \o <<" ">>), carries |-> TRUE],
    [headers |-> XApiKey(<<"k", "2">>), carries |-> FALSE],
    [headers |-> XApiKey(TheKey \o <<"x">>), carries |-> FALSE],
    [headers |-> Authorization(<<"B", "e", "a", "r", "e", "r", " ", "k", "1">>), carries |-> TRUE],
    [headers |-> Authorization(<<"b", "e", "a", "r", "e", "r", " ", " ", "k", "1", " ">>), carries |-> TRUE],
    [headers |-> Authorization(<<"B", "e", "a", "r", "e", "r", " ", "k", "2">>), carries |-> FALSE],
    [headers |-> Authorization(<<"B", "a", "s", "i", "c", " ", "k", "1">>), carries |-> FALSE],
    [headers |-> Authorization(TheKey), carries |-> FALSE],
    [headers |-> [x_api_key |-> SomeText(<<"k", "2">>), authorization |-> SomeText(<<"B", "e", "a", "r", "e", "r", " ", "k", "1">>)],
     carries |-> TRUE] }

\* The scripts of the requests: an empty one and one that runs.
CodeMenu == {<<" ">>, <<"n", "e", "u", "r", "o", " ", "\"", "h", "i", "\"">>}

\* strip_prefix("Bearer ").or_else(|| strip_prefix("bearer "))
BearerToken(auth) ==
  IF StartsWith(auth, <<"B", "e", "a", "r", "e", "r", " ">>) \/ StartsWith(auth, <<"b", "e", "a", "r", "e", "r", " ">>)
  THEN SomeText(From(auth, 8))
  ELSE NoText

TokenMatches(token, expected) == token.some /\ Trim(token.v) = expected

\* A key check that takes any X-API-Key header.
api_key_present(headers, expected) == headers.x_api_key.some \/ headers.authorization.some

api_key_matches(headers, expected) ==
  \/ headers.x_api_key.some /\ Trim(headers.x_api_key.v) = expected
  \/ headers.authorization.some
       /\ TokenMatches(BearerToken(Trim(headers.authorization.v)), expected)

\* Semaphore::try_acquire_owned on a semaphore with n permits available.
try_acquire_always(n) == TRUE

try_acquire_owned(n) == n > 0

\* bucket.sem.available_permits(): per_ip_max less the permits the calls hold.
available_permits(s) == PerIpMax - Cardinality({h \in Handlers : reqs[h].ip_permit = s})

\* The semaphores some bucket or some call refers to.
SemsOf(table) ==
  {table[a].sem : a \in DOMAIN table}
    \cup {reqs[h].sem : h \in Handlers} \cup {reqs[h].ip_permit : h \in Handlers}

\* Arc::new(Semaphore::new(per_ip_max)): a semaphore nothing refers to.
NewSem(table) == Min(Sems \ SemsOf(table))

\* table.retain(...): a bucket stays while it was seen within the ttl, and
\* after that while a permit of it is out.
Retained(table, now) ==
  {a \in DOMAIN table :
     now - table[a].last_seen <= Ttl \/ available_permits(table[a].sem) # PerIpMax}

\* A retain that drops every bucket as soon as its ttl is over.
RetainedSeen(table, now) == {a \in DOMAIN table : now - table[a].last_seen <= Ttl}

Restrict(table, keep) == [a \in keep |-> table[a]]

\* maybe_cleanup_ip_table, n the counter before the fetch_add.
maybe_cleanup_ip_table(table, now, n) ==
  IF n % CleanupEvery # 0 THEN table ELSE Restrict(table, Retained(table, now))

\* table.entry(ip).or_insert_with(...), then bucket.last_seen = now.
Entered(table, ip, now) ==
  [a \in DOMAIN table \cup {ip} |->
     IF a = ip
     THEN [sem |-> IF ip \in DOMAIN table THEN table[ip].sem ELSE NewSem(table),
           last_seen |-> now]
     ELSE table[a]]

\* The call in handler h becomes r.
Becomes(h, r) == reqs' = [reqs EXCEPT ![h] = r]

\* The answer of a call: the locals dropped, the status and ok of the response.
Answered(r, status, ok) ==
  [r EXCEPT !.at = "idle", !.ip = "none", !.sem = 0, !.ip_permit = 0, !.permit = FALSE,
            !.status = status, !.ok = ok]

\* The block of acquire_per_ip_permit under the lock of the table.
Locked(h, r, table) ==
  /\ per_ip' = Entered(table, r.ip, clock)
  /\ ip_cleanup_counter' = (ip_cleanup_counter + 1) % CleanupEvery
  /\ Becomes(h, [r EXCEPT !.at = "cloned", !.sem = Entered(table, r.ip, clock)[r.ip].sem])

\* api_analyze from its start to the first point where it meets the other
\* calls: the key check, the empty input, client_ip, and with a reliable
\* address the locked block of acquire_per_ip_permit.
Started(h, r, headers, code) ==
  IF api_key.some /\ ~api_key_matches(headers, api_key.v)
  THEN Becomes(h, Answered(r, 401, FALSE)) /\ UNCHANGED <<per_ip, ip_cleanup_counter>>
  ELSE IF Trim(code) = <<>>
  THEN Becomes(h, Answered(r, 200, FALSE)) /\ UNCHANGED <<per_ip, ip_cleanup_counter>>
  ELSE IF r.ip = "none"
  THEN Becomes(h, [r EXCEPT !.at = "cpu"]) /\ UNCHANGED <<per_ip, ip_cleanup_counter>>
  ELSE Locked(h, r, maybe_cleanup_ip_table(per_ip, clock, ip_cleanup_counter))

srvRest == <<runVars, lexVars, parseVars, input, dsl, result, norm, label, api_key>>

Arrive(h) ==
  /\ reqs[h].at = "idle"
  /\ \E ip \in Ips \cup {"none"}, cred \in CredMenu, code \in CodeMenu :
       Started(h, [NoReq EXCEPT !.ip = ip, !.carries = (api_key.some /\ cred.carries)], cred.headers, code)
  /\ UNCHANGED <<srvRest, inference_sem, clock>>

\* sem.try_acquire_owned().ok(), and the 429 of the per-IP gate.
TryIp(h) ==
  /\ reqs[h].at = "cloned"
  /\ IF try_acquire_owned(available_permits(reqs[h].sem))
     THEN Becomes(h, [reqs[h] EXCEPT !.at = "cpu", !.ip_permit = reqs[h].sem, !.sem = 0])
     ELSE Becomes(h, Answered(reqs[h], 429, FALSE))
  /\ UNCHANGED <<srvRest, inference_sem, per_ip, ip_cleanup_counter, clock>>

\* The permit of inference_sem taken, the blocking task spawned.
Spawned(h) ==
  /\ inference_sem' = inference_sem - 1
  /\ Becomes(h, [reqs[h] EXCEPT !.at = "running", !.permit = TRUE, !.ran = TRUE])

\* s.inference_sem.clone().try_acquire_owned()
TryCpu(h) ==
  /\ reqs[h].at = "cpu"
  /\ IF try_acquire_owned(inference_sem)
     THEN Spawned(h)
     ELSE Becomes(h, [reqs[h] EXCEPT !.at = "waiting"]) /\ UNCHANGED inference_sem
  /\ UNCHANGED <<srvRest, per_ip, ip_cleanup_counter, clock>>

\* acquire_owned() completes within the 50 ms.
WaitAcquired(h) ==
  /\ reqs[h].at = "waiting"
  /\ inference_sem > 0
  /\ Spawned(h)
  /\ UNCHANGED <<srvRest, per_ip, ip_cleanup_counter, clock>>

\* The timeout of the soft wait: 503.
WaitTimedOut(h) ==
  /\ reqs[h].at = "waiting"
  /\ Becomes(h, Answered(reqs[h], 503, FALSE))
  /\ UNCHANGED <<srvRest, inference_sem, per_ip, ip_cleanup_counter, clock>>

\* The blocking task is over: both permits dropped, 200 with the Ok of the
\* script.
Finish(h) ==
  /\ reqs[h].at = "running"
  /\ inference_sem' = inference_sem + 1
  /\ Becomes(h, Answered(reqs[h], 200, TRUE))
  /\ UNCHANGED <<srvRest, per_ip, ip_cleanup_counter, clock>>

\* Instant::now() goes on.
Tick ==
  /\ clock < MaxClock
  /\ clock' = clock + 1
  /\ UNCHANGED <<srvRest, inference_sem, per_ip, ip_cleanup_counter, reqs>>

\* main: the key of NC_API_KEY when it is set, every permit available, an
\* empty table; no interpreter is at work outside the blocking tasks.
InitServer ==
  /\ variables = NoVars
  /\ output = <<>>
  /\ ai_model = NoModel
  /\ macro_model = NoModel
  /\ pc = "idle"
  /\ last = <<>>
  /\ calls = <<>>
  /\ LexOff
  /\ it = <<>>
  /\ ast = <<>>
  /\ parse_pc = "off"
  /\ input = <<>>
  /\ dsl = <<>>
  /\ result = NoResult
  /\ norm = <<>>
  /\ label = "none"
  /\ api_key \in {NoText, SomeText(TheKey)}
  /\ inference_sem = MaxInfer
  /\ per_ip = [a \in {} |-> 0]
  /\ ip_cleanup_counter = 0
  /\ clock = 0
  /\ reqs = [h \in Handlers |-> NoReq]

NextServer ==
  \/ \E h \in Handlers : Arrive(h)
  \/ \E h \in Handlers : TryIp(h)
  \/ \E h \in Handlers : TryCpu(h)
  \/ \E h \in Handlers : WaitAcquired(h)
  \/ \E h \in Handlers : WaitTimedOut(h)
  \/ \E h \in Handlers : Finish(h)
  \/ Tick

SpecServer == InitServer /\ [][NextServer]_vars

\* The calls whose blocking task runs engine::analyze, and the calls that
\* hold a permit of inference_sem.
Executing == {h \in Handlers : reqs[h].at = "running"}
Permitted == {h \in Handlers : reqs[h].permit}

\* The last answer of handler h had the status.
AnsweredWith(h, status) == reqs[h].at = "idle" /\ reqs[h].status = status

HoldingFor(ip) == {h \in Handlers : reqs[h].ip = ip /\ reqs[h].ip_permit # 0}

\* C23: the calls of one address that hold a per-IP permit at the same time
\* are never more than per_ip_max; the call answered 429 has executed
\* nothing; and the bucket of an address is in the table as long as a call of
\* that address holds a per-IP permit (cleanup does not remove it).
C23_PerIpPermitsBounded ==
  /\ \A ip \in Ips : Cardinality(HoldingFor(ip)) <= PerIpMax
  /\ \A h \in Handlers : AnsweredWith(h, 429) => ~reqs[h].ran
  /\ \A ip \in Ips : HoldingFor(ip) # {} => ip \in DOMAIN per_ip

\* The call in handler h has started in this step.
Starts(h) == reqs[h].at = "idle" /\ reqs'[h] # reqs[h]

\* The call in handler h holds nothing and has executed nothing.
Untouched(r) == r.sem = 0 /\ r.ip_permit = 0 /\ ~r.permit /\ ~r.ran

\* With a key configured, a call that starts without the key is answered 401
\* with ok = false in that step, which leaves the semaphores, the table and
\* its counter alone; a call that starts with the key is not answered 401.
KeyChecked(h) ==
  (api_key.some /\ Starts(h)) =>
    IF reqs'[h].carries
    THEN reqs'[h].status # 401
    ELSE /\ reqs'[h].at = "idle"
         /\ reqs'[h].status = 401
         /\ ~reqs'[h].ok
         /\ Untouched(reqs'[h])
         /\ UNCHANGED <<inference_sem, per_ip, ip_cleanup_counter>>

\* A call without the key never gets past the key check.
KeyHeld ==
  api_key.some =>
    \A h \in Handlers :
      /\ (reqs[h].at # "idle" \/ reqs[h].ran) => reqs[h].carries
      /\ (reqs[h].status # 0 /\ ~reqs[h].carries) => AnsweredWith(h, 401) /\ Untouched(reqs[h])

\* C24: with an API key configured, a request whose X-API-Key header or
\* Bearer token is not the key is answered 401 with ok = false before any
\* permit is acquired and before any script is executed; a request that
\* carries the key goes on to the gates and is executed.
C24_WrongKeyAnswered401 == [][\A h \in Handlers : KeyChecked(h)]_vars /\ []KeyHeld

\* A key is configured; one request without it has been answered 401, and a
\* request with it has been executed and answered 200 with ok = true.
C24_WitnessBoth ==
  /\ api_key.some
  /\ \E h \in Handlers : AnsweredWith(h, 401) /\ ~reqs[h].carries /\ ~reqs[h].ran
  /\ \E h \in Handlers :
       AnsweredWith(h, 200) /\ reqs[h].carries /\ reqs[h].ran /\ reqs[h].ok

====
